---- MODULE Spec2Model ----
(***************************************************************************)
(* BookTree backend: the order engine (orderController.js), the order      *)
(* routes' access control (routes/orders.js), the user store with its      *)
(* embedded cart (routes/user.js) and the seeded catalog (scripts/seed.js).*)
(*                                                                         *)
(* Conventions.  A JSON value that may be absent is a sequence of length   *)
(* 0 (absent / undefined) or 1 (<<v>>).  Identifiers are positive          *)
(* integers; an order's _id is its position in the orders collection       *)
(* (orders are never deleted by the server).  Timestamps are left out,     *)
(* except the calendar day that enters the order number; "newest first"    *)
(* is the reverse of insertion order.                                      *)
(***************************************************************************)
EXTENDS Integers, Sequences, FiniteSets, TLC

\* ------------------------------------------------------------------ bounds
MaxOrders == 2       \* createOrder is not started once this many orders exist
InitStock == 3       \* stock of every seeded book
MaxCart == 2         \* cart/add is not started once the cart holds this many units

\* ------------------------------------------------------------- value sets
UserIds == {1, 2}                 \* 1: the seeded admin, 2: the seeded user
BookIds == {1, 2}                 \* the seeded books
GhostBookId == 3                  \* a well-formed id no book has
BadBookId == -1                   \* a string new ObjectId() throws on
Days == {1, 2}                    \* calendar days (YYYYMMDD) of new Date()
Statuses == {"pending", "confirmed", "processing", "shipped", "delivered", "cancelled"}
Undefined == "undefined"

None == <<>>
Some(v) == <<v>>
Present(o) == o # <<>>
Val(o) == o[1]

RECURSIVE SumSeq(_)
SumSeq(s) == IF s = <<>> THEN 0 ELSE s[1] + SumSeq(Tail(s))

Reverse(s) == [i \in 1..Len(s) |-> s[Len(s) + 1 - i]]

Min(a, b) == IF a < b THEN a ELSE b

\* ------------------------------------------------------------------ state
VARIABLES
    books,      \* the books collection: id -> [title, author, price, category, stock]
    users,      \* the users collection: id -> [email, role, cart]
    orders,     \* the orders collection, in insertion order
    resp,       \* the response to the request handled last
    reqs,       \* the createOrder requests in flight, one per connection
    categories  \* the categories collection: position = _id, <<>> once deleted

vars == <<books, users, orders, resp, reqs, categories>>

Conns == {1, 2}

\* ------------------------------------------------------------------- seed
\* a stored or submitted reference to category c: the ObjectId itself, or
\* its 24-character hex string
ObjectIdOf(c) == [type |-> "ObjectId", id |-> c]
HexOf(c) == [type |-> "string", id |-> c]

\* Dune is seeded under categoryIds[0]; the other book stands for one seeded
\* under categoryIds[1]
SeedBook(b) ==
    [title |-> IF b = 1 THEN "Dune" ELSE "Emma",
     author |-> "author",
     price |-> b + 1,
     category |-> Some(ObjectIdOf(b)),
     stock |-> InitStock]

\* category names are sequences of characters
ScienceFiction == <<"S", "c", "i", "e", "n", "c", "e", " ", "F", "i", "c", "t", "i", "o", "n">>
Fantasy == <<"F", "a", "n", "t", "a", "s", "y">>

SeedCategory(c) == [name |-> IF c = 1 THEN ScienceFiction ELSE Fantasy, isActive |-> TRUE]

SeedEmail(u) == IF u = 1 THEN "admin@schoolplus.com" ELSE "john@example.com"

SeedUser(u) == [email |-> SeedEmail(u), role |-> IF u = 1 THEN "admin" ELSE "user", cart |-> <<>>]

NoResp == [op |-> "none", user |-> 0, code |-> 0, error |-> "", data |-> <<>>]

\* a connection with no request: the locals of createOrder, unset
IdleReq ==
    [pc |-> "idle", user |-> 0, body |-> <<>>, i |-> 1, validatedItems |-> <<>>,
     book |-> <<>>, count |-> 0, orderNumber |-> <<>>, orderId |-> 0, k |-> 1,
     cart |-> <<>>]

Init ==
    /\ books = [b \in BookIds |-> SeedBook(b)]
    /\ users = [u \in UserIds |-> SeedUser(u)]
    /\ orders = <<>>
    /\ resp = NoResp
    /\ reqs = [c \in Conns |-> IdleReq]
    /\ categories = [c \in 1..2 |-> Some(SeedCategory(c))]

\* ------------------------------------------------- routes/orders.js: auth
\* The bearer tokens a client can present: none, one that jwt.verify
\* rejects, or one signed with JWT_SECRET.  register and login sign the
\* claims {userId, email} and nothing else (routes/user.js:120, 170).
Email(u) == SeedEmail(u)

ValidToken(u) == [kind |-> "valid", userId |-> u, email |-> Email(u), role |-> Undefined]

\* a token signed with JWT_SECRET whose payload carries a role claim too;
\* no route issues one, jwt.verify accepts it like any signed payload
RoleToken(u, role) == [kind |-> "valid", userId |-> u, email |-> Email(u), role |-> role]

Tokens == {[kind |-> "none", userId |-> 0, email |-> "", role |-> Undefined],
           [kind |-> "invalid", userId |-> 0, email |-> "", role |-> Undefined]}
              \cup {ValidToken(u) : u \in UserIds}

\* jwt.verify's payload: the token's claims; a claim the token does not
\* carry reads as undefined.
TokenClaims(token) == [userId |-> token.userId, email |-> token.email, role |-> token.role]

\* authenticateToken of the order routes: 401 without a token, 403 for a
\* token that does not verify, else req.user = the claims (code 0: next()).
AuthenticateTokenSwapped(token) ==
    IF token.kind = "none" THEN [code |-> 403, error |-> "Invalid or expired token", user |-> TokenClaims(token)]
    ELSE IF token.kind = "invalid" THEN [code |-> 401, error |-> "Access token required", user |-> TokenClaims(token)]
    ELSE [code |-> 0, error |-> "", user |-> TokenClaims(token)]
AuthenticateToken(token) ==
    IF token.kind = "none" THEN [code |-> 401, error |-> "Access token required", user |-> TokenClaims(token)]
    ELSE IF token.kind = "invalid" THEN [code |-> 403, error |-> "Invalid or expired token", user |-> TokenClaims(token)]
    ELSE [code |-> 0, error |-> "", user |-> TokenClaims(token)]

IsAdmin(user) == user.role = "admin"

\* ------------------------------------------------------ Order (the model)
RECURSIVE Digits(_)
\* String(n) for n >= 0, as a sequence of decimal digits
Digits(n) == IF n < 10 THEN <<n>> ELSE Append(Digits(n \div 10), n % 10)

RECURSIVE PadStart(_, _, _)
PadStart(s, width, fill) == IF Len(s) >= width THEN s ELSE PadStart(<<fill>> \o s, width, fill)

\* Order.generateOrderNumber, given the result of countDocuments() and the
\* day of new Date(): ORD-YYYYMMDD-NNNN
GenerateOrderNumberNoIncrement(count, day) == <<"ORD", day, PadStart(Digits(count), 4, 0)>>
GenerateOrderNumber(count, day) == <<"ORD", day, PadStart(Digits(count + 1), 4, 0)>>

\* the document Order.create inserts
NewOrder(orderData, orderNumber) ==
    [userId |-> orderData.userId,
     items |-> orderData.items,
     totalAmount |-> orderData.totalAmount,
     shippingAddress |-> orderData.shippingAddress,
     paymentMethod |-> orderData.paymentMethod,
     notes |-> orderData.notes,
     status |-> IF orderData.status = "" THEN "pending" ELSE orderData.status,
     statusHistory |-> orderData.statusHistory,
     orderNumber |-> orderNumber]

\* --------------------------------------------- orderController.createOrder
Fail(code, error) == [code |-> code, error |-> error]
Pass == [code |-> 0, error |-> ""]

\* the checks on the body made before any item is looked at
CheckBody(body) ==
    IF ~Present(body.items) \/ Len(Val(body.items)) = 0
    THEN Fail(400, "Order items are required")
    ELSE IF ~Present(body.shippingAddress)
            \/ "address" \notin Val(body.shippingAddress)
            \/ "city" \notin Val(body.shippingAddress)
    THEN Fail(400, "Shipping address with address and city is required")
    ELSE IF ~Present(body.paymentMethod)
    THEN Fail(400, "Payment method is required")
    ELSE Pass

\* !item.bookId || !item.quantity || item.quantity <= 0
ItemMalformedLax(item) == ~Present(item.bookId) \/ ~Present(item.quantity)
ItemMalformed(item) ==
    \/ ~Present(item.bookId)
    \/ ~Present(item.quantity)
    \/ Val(item.quantity) = 0
    \/ Val(item.quantity) <= 0

\* book.stock < item.quantity
InsufficientStockNever(book, item) == FALSE
InsufficientStock(book, item) == book.stock < Val(item.quantity)

\* book.price * item.quantity
ItemTotalUnit(book, item) == book.price
ItemTotal(book, item) == book.price * Val(item.quantity)

\* the snapshot pushed to validatedItems
OrderLine(id, book, item) ==
    [bookId |-> id,
     title |-> book.title,
     author |-> book.author,
     price |-> book.price,
     quantity |-> Val(item.quantity),
     subtotal |-> ItemTotal(book, item)]

\* one iteration of the validation loop against the books collection bks:
\* a failure, or the line to push
CheckItem(bks, item) ==
    IF ItemMalformed(item)
    THEN Fail(400, "Each item must have a valid bookId and quantity")
    ELSE IF Val(item.bookId) = BadBookId
    THEN Fail(500, "Failed to create order")
    ELSE IF Val(item.bookId) \notin DOMAIN bks
    THEN Fail(404, "Book not found")
    ELSE IF InsufficientStock(bks[Val(item.bookId)], item)
    THEN Fail(400, "Insufficient stock")
    ELSE Pass

RECURSIVE ValidateItems(_, _, _, _)
\* the whole loop, from item i on, with validatedItems = acc so far
ValidateItems(bks, items, i, acc) ==
    IF i > Len(items) THEN [code |-> 0, error |-> "", validatedItems |-> acc]
    ELSE LET chk == CheckItem(bks, items[i]) IN
         IF chk.code # 0 THEN [code |-> chk.code, error |-> chk.error, validatedItems |-> acc]
         ELSE ValidateItems(bks, items, i + 1,
                  Append(acc, OrderLine(Val(items[i].bookId), bks[Val(items[i].bookId)], items[i])))

RECURSIVE TotalOf(_)
\* totalAmount as the loop accumulates it
TotalOf(lines) == IF lines = <<>> THEN 0 ELSE TotalOf(SubSeq(lines, 1, Len(lines) - 1)) + lines[Len(lines)].subtotal

OrderData(user, validatedItems, body) ==
    [userId |-> user.userId,
     items |-> validatedItems,
     totalAmount |-> TotalOf(validatedItems),
     shippingAddress |-> Val(body.shippingAddress),
     paymentMethod |-> Val(body.paymentMethod),
     notes |-> "",
     status |-> "pending",
     statusHistory |-> <<[status |-> "pending", notes |-> "Order created"]>>]

\* updateOne({_id: item.bookId}, {$inc: {stock: -item.quantity}})
DecrementStockGuarded(bks, line) ==
    IF line.bookId \in DOMAIN bks /\ bks[line.bookId].stock >= line.quantity
    THEN [bks EXCEPT ![line.bookId].stock = @ - line.quantity]
    ELSE bks
DecrementStockOnce(bks, line) ==
    IF line.bookId \in DOMAIN bks
    THEN [bks EXCEPT ![line.bookId].stock = @ - 1]
    ELSE bks
DecrementStock(bks, line) ==
    IF line.bookId \in DOMAIN bks
    THEN [bks EXCEPT ![line.bookId].stock = @ - line.quantity]
    ELSE bks

RECURSIVE DecrementAll(_, _)
DecrementAll(bks, lines) ==
    IF lines = <<>> THEN bks ELSE DecrementAll(DecrementStock(bks, lines[1]), Tail(lines))

\* updateOne({_id: user.userId}, {$set: {cart: []}})
ClearCart(usrs, userId) ==
    IF userId \in DOMAIN usrs THEN [usrs EXCEPT ![userId].cart = <<>>] ELSE usrs

\* the handler run to completion against the database <<bks, usrs, ords>>
RunCreateOrder(bks, usrs, ords, user, body, day) ==
    LET pre == CheckBody(body)
        unchanged(code, error) ==
            [books |-> bks, users |-> usrs, orders |-> ords,
             resp |-> [op |-> "createOrder", user |-> user.userId, code |-> code,
                       error |-> error, data |-> <<>>]]
    IN  IF pre.code # 0 THEN unchanged(pre.code, pre.error)
        ELSE LET v == ValidateItems(bks, Val(body.items), 1, <<>>) IN
             IF v.code # 0 THEN unchanged(v.code, v.error)
             ELSE LET order == NewOrder(OrderData(user, v.validatedItems, body),
                                        GenerateOrderNumber(Len(ords), day))
                  IN  [books |-> DecrementAll(bks, v.validatedItems),
                       users |-> ClearCart(usrs, user.userId),
                       orders |-> Append(ords, order),
                       resp |-> [op |-> "createOrder", user |-> user.userId, code |-> 201,
                                 error |-> "", data |-> <<order>>]]

\* a request that authenticateToken turned away: nothing but the response
Rejected(op, auth) ==
    /\ resp' = [op |-> op, user |-> 0, code |-> auth.code, error |-> auth.error, data |-> <<>>]
    /\ UNCHANGED <<books, users, orders, reqs, categories>>

\* POST /api/orders, handled with no other request in between
CreateOrder(token, body, day) ==
    /\ Len(orders) < MaxOrders
    /\ LET auth == AuthenticateToken(token) IN
       IF auth.code # 0 THEN Rejected("createOrder", auth)
       ELSE LET r == RunCreateOrder(books, users, orders, auth.user, body, day) IN
            /\ books' = r.books
            /\ users' = r.users
            /\ orders' = r.orders
            /\ resp' = r.resp
            /\ UNCHANGED <<reqs, categories>>

\* ------------------------------------------------ routes/user.js: the cart
\* the units a cart holds; a line whose quantity is no number counts 0
CartQuantity(cart) ==
    SumSeq([i \in 1..Len(cart) |-> IF Present(cart[i].quantity) THEN Val(cart[i].quantity) ELSE 0])

\* user.cart.findIndex(item => item.title === title): 0 for -1
RECURSIVE FindIndexFrom(_, _, _)
FindIndexFrom(cart, title, i) ==
    IF i > Len(cart) THEN 0
    ELSE IF cart[i].title = title THEN i
    ELSE FindIndexFrom(cart, title, i + 1)

FindIndex(cart, title) == FindIndexFrom(cart, title, 1)

\* the cart POST /cart/add writes back; a line's quantity is <<n>> for the
\* number n and <<>> for undefined, null or NaN (undefined + 1 is NaN)
CartAfterAddAlwaysPush(cart, body) ==
    Append(cart, [title |-> Val(body.title), author |-> Val(body.author), price |-> Val(body.price),
                  description |-> body.description, quantity |-> Some(1)])
CartAfterAddRefresh(cart, body) ==
    LET i == FindIndex(cart, Val(body.title)) IN
    IF i # 0 THEN [cart EXCEPT ![i].quantity = IF Present(@) THEN Some(Val(@) + 1) ELSE None,
                               ![i].price = Val(body.price)]
    ELSE CartAfterAddAlwaysPush(cart, body)
CartAfterAdd(cart, body) ==
    LET i == FindIndex(cart, Val(body.title)) IN
    IF i # 0 THEN [cart EXCEPT ![i].quantity = IF Present(@) THEN Some(Val(@) + 1) ELSE None]
    ELSE Append(cart, [title |-> Val(body.title),
                       author |-> Val(body.author),
                       price |-> Val(body.price),
                       description |-> body.description,
                       quantity |-> Some(1)])

\* the handler of POST /cart/add run against the users collection usrs for
\* req.user = user: the collection it leaves and its response
RunAddItem(usrs, user, body) ==
    LET answer(code, error) ==
            [users |-> usrs,
             resp |-> [op |-> "addItem", user |-> user.userId, code |-> code,
                       error |-> error, data |-> <<>>]]
    IN  IF ~Present(body.title) \/ ~Present(body.author) \/ ~Present(body.price)
               \/ Val(body.price) = 0
        THEN answer(400, "Title, author, and price are required")
        ELSE IF user.userId \notin DOMAIN usrs THEN answer(404, "User not found")
        ELSE [users |-> [usrs EXCEPT ![user.userId].cart = CartAfterAdd(@, body)],
              resp |-> [op |-> "addItem", user |-> user.userId, code |-> 200,
                        error |-> "", data |-> <<>>]]

\* POST /api/users/cart/add
AddItem(token, body) ==
    LET auth == AuthenticateToken(token) IN
    IF auth.code # 0 THEN Rejected("addItem", auth)
    ELSE LET r == RunAddItem(users, auth.user, body) IN
         /\ r.resp.code = 200 => CartQuantity(users[auth.user.userId].cart) < MaxCart
         /\ users' = r.users
         /\ resp' = r.resp
         /\ UNCHANGED <<books, orders, reqs, categories>>

\* ------------------------------------------------------- request inputs
Quantities == {1, 2}              \* the positive quantities of request lines
ItemCounts == {0, 1, 2}           \* the lengths of items lists

\* request lines for seeded books
GoodItems == [bookId : {Some(b) : b \in BookIds}, quantity : {Some(q) : q \in Quantities}]

\* request lines that lack a bookId or a positive quantity, carry an id that
\* is no ObjectId, or name a book that does not exist
OddItems == {[bookId |-> None, quantity |-> Some(1)],
             [bookId |-> Some(1), quantity |-> None],
             [bookId |-> Some(1), quantity |-> Some(0)],
             [bookId |-> Some(1), quantity |-> Some(-1)],
             [bookId |-> Some(BadBookId), quantity |-> Some(1)],
             [bookId |-> Some(GhostBookId), quantity |-> Some(1)]}

ItemLists == UNION {[1..k -> GoodItems] : k \in ItemCounts}

\* an odd line alone, after a line that passes, or before a line that
\* fails another check
OddLists ==
    UNION {{<<o>>, <<[bookId |-> Some(2), quantity |-> Some(1)], o>>,
            <<o, [bookId |-> Some(GhostBookId), quantity |-> Some(1)]>>} : o \in OddItems}

FullAddress == {"address", "city"}

GoodBody(items) ==
    [items |-> Some(items), shippingAddress |-> Some(FullAddress), paymentMethod |-> Some("card")]

\* bodies that fail a check made before the items are looked at
OddBodies ==
    {[items |-> None, shippingAddress |-> Some(FullAddress), paymentMethod |-> Some("card")]}
    \cup {[items |-> Some(<<[bookId |-> Some(1), quantity |-> Some(1)]>>),
           shippingAddress |-> a, paymentMethod |-> p] :
             a \in {None, Some({"address"}), Some({"city"}), Some(FullAddress)},
             p \in {None, Some("card")}}

GoodBodies == {GoodBody(items) : items \in ItemLists}

OrderBodies == GoodBodies \cup {GoodBody(items) : items \in OddLists} \cup OddBodies

CartBody(title) ==
    [title |-> title, author |-> Some("author"), price |-> Some(2), description |-> None]

BadTokens == {t \in Tokens : t.kind # "valid"}

Shopper == 2                      \* the seeded non-admin user
Today == CHOOSE d \in Days : \A e \in Days : d <= e

\* ---------------------------------------------------------- specification
\* requests handled one at a time
Next ==
    \/ \E body \in OrderBodies : CreateOrder(ValidToken(Shopper), body, Today)
    \/ \E token \in BadTokens : CreateOrder(token, GoodBody(<<>>), Today)

Spec == Init /\ [][Next]_vars

\* bodies of orders placed from a filled cart: one line, two lines for two
\* books, two lines for one book
CartOrderBodies ==
    {GoodBody(<<[bookId |-> Some(1), quantity |-> Some(2)]>>),
     GoodBody(<<[bookId |-> Some(2), quantity |-> Some(1)], [bookId |-> Some(1), quantity |-> Some(2)]>>),
     GoodBody(<<[bookId |-> Some(2), quantity |-> Some(1)], [bookId |-> Some(2), quantity |-> Some(1)]>>)}

\* carts filled and orders placed by either user, one request at a time
NextCart ==
    \/ \E u \in UserIds, body \in CartOrderBodies : CreateOrder(ValidToken(u), body, Today)
    \/ \E u \in UserIds, title \in {"Dune", "Emma"} : AddItem(ValidToken(u), CartBody(Some(title)))

SpecCart == Init /\ [][NextCart]_vars

\* ------------------------------- createOrder, one database call at a time
\* Each action below is the code between two awaits of createOrder on one
\* connection: the database call and the synchronous code that follows it.
Respond(c, code, error, data) ==
    /\ resp' = [op |-> "createOrder", user |-> reqs[c].user, code |-> code,
                error |-> error, data |-> data]

\* the request arrives: authenticateToken and the checks on the body
BeginCreateOrder(c, token, body) ==
    /\ reqs[c].pc = "idle"
    /\ Len(orders) + Cardinality({d \in Conns : reqs[d].pc \in {"validate", "count", "insert"}}) < MaxOrders
    /\ LET auth == AuthenticateToken(token)
           pre == CheckBody(body)
           code == IF auth.code # 0 THEN auth.code ELSE pre.code
           error == IF auth.code # 0 THEN auth.error ELSE pre.error
       IN  IF code # 0
           THEN /\ reqs' = [reqs EXCEPT ![c] = [@ EXCEPT !.pc = "done", !.user = auth.user.userId, !.body = body]]
                /\ resp' = [op |-> "createOrder", user |-> auth.user.userId, code |-> code,
                            error |-> error, data |-> <<>>]
           ELSE /\ reqs' = [reqs EXCEPT ![c] = [@ EXCEPT !.pc = "validate", !.user = auth.user.userId, !.body = body]]
                /\ UNCHANGED resp
    /\ UNCHANGED <<books, users, orders, categories>>

\* one iteration of the validation loop: bookCollection.findOne and the
\* checks on what it returned
ValidateItem(c) ==
    /\ reqs[c].pc = "validate"
    /\ LET r == reqs[c]
           items == Val(r.body.items)
           item == items[r.i]
           chk == CheckItem(books, item)
       IN  IF chk.code # 0
           THEN /\ reqs' = [reqs EXCEPT ![c].pc = "done"]
                /\ Respond(c, chk.code, chk.error, <<>>)
           ELSE /\ reqs' = [reqs EXCEPT ![c] =
                       [@ EXCEPT !.validatedItems = Append(@, OrderLine(Val(item.bookId), books[Val(item.bookId)], item)),
                                 !.book = Some(books[Val(item.bookId)]),
                                 !.i = @ + 1,
                                 !.pc = IF r.i + 1 > Len(items) THEN "count" ELSE "validate"]]
                /\ UNCHANGED resp
    /\ UNCHANGED <<books, users, orders, categories>>

\* Order.generateOrderNumber: countDocuments(), then the number
CountOrders(c, day) ==
    /\ reqs[c].pc = "count"
    /\ reqs' = [reqs EXCEPT ![c] =
           [@ EXCEPT !.count = Len(orders),
                     !.orderNumber = GenerateOrderNumber(Len(orders), day),
                     !.pc = "insert"]]
    /\ UNCHANGED <<books, users, orders, resp, categories>>

\* Order.create: insertOne
InsertOrder(c) ==
    /\ reqs[c].pc = "insert"
    /\ LET r == reqs[c] IN
       orders' = Append(orders, NewOrder(OrderData([userId |-> r.user], r.validatedItems, r.body), r.orderNumber))
    /\ reqs' = [reqs EXCEPT ![c] = [@ EXCEPT !.orderId = Len(orders) + 1, !.k = 1, !.pc = "decrement"]]
    /\ UNCHANGED <<books, users, resp, categories>>

\* one iteration of the stock loop: updateOne with $inc
DecrementLine(c) ==
    /\ reqs[c].pc = "decrement"
    /\ LET r == reqs[c] IN
       /\ books' = DecrementStock(books, r.validatedItems[r.k])
       /\ reqs' = [reqs EXCEPT ![c] =
              [@ EXCEPT !.k = @ + 1,
                        !.pc = IF r.k + 1 > Len(r.validatedItems) THEN "clearCart" ELSE "decrement"]]
    /\ UNCHANGED <<users, orders, resp, categories>>

\* the cart is cleared and the order created is returned
ClearCartAndRespond(c) ==
    /\ reqs[c].pc = "clearCart"
    /\ users' = ClearCart(users, reqs[c].user)
    /\ reqs' = [reqs EXCEPT ![c].pc = "done"]
    /\ LET r == reqs[c] IN
       Respond(c, 201, "", <<NewOrder(OrderData([userId |-> r.user], r.validatedItems, r.body), r.orderNumber)>>)
    /\ UNCHANGED <<books, orders, categories>>

\* bodies of overlapping requests: one or two lines of two copies each
ConcBodies ==
    {GoodBody(items) : items \in UNION {[1..k -> [bookId : {Some(b) : b \in BookIds}, quantity : {Some(2)}]] : k \in ItemCounts \ {0}}}

\* two connections, each carrying one createOrder request of its user; the
\* database calls of the two requests interleave freely
NextConc ==
    \/ \E c \in Conns, body \in ConcBodies : BeginCreateOrder(c, ValidToken(c), body)
    \/ \E c \in Conns : ValidateItem(c)
    \/ \E c \in Conns, day \in Days : CountOrders(c, day)
    \/ \E c \in Conns : InsertOrder(c)
    \/ \E c \in Conns : DecrementLine(c)
    \/ \E c \in Conns : ClearCartAndRespond(c)

SpecConc == Init /\ [][NextConc]_vars

\* the database call a request is about to make throws: the catch block
\* of createOrder answers 500 and nothing is undone
PersistenceFailsRollback(c) ==
    /\ reqs[c].pc \in {"validate", "count", "insert", "decrement", "clearCart"}
    /\ reqs' = [reqs EXCEPT ![c].pc = "done"]
    /\ Respond(c, 500, "Failed to create order", <<>>)
    /\ orders' = IF reqs[c].orderId # 0 THEN SubSeq(orders, 1, Len(orders) - 1) ELSE orders
    /\ UNCHANGED <<books, users, categories>>
PersistenceFails(c) ==
    /\ reqs[c].pc \in {"validate", "count", "insert", "decrement", "clearCart"}
    /\ reqs' = [reqs EXCEPT ![c].pc = "done"]
    /\ Respond(c, 500, "Failed to create order", <<>>)
    /\ UNCHANGED <<books, users, orders, categories>>

\* the shopper fills the cart, then places one order on connection 1, any
\* database call of which may throw
NextFail ==
    \/ \E title \in {"Dune", "Emma"} : reqs[1].pc = "idle" /\ AddItem(ValidToken(Shopper), CartBody(Some(title)))
    \/ \E body \in ConcBodies : BeginCreateOrder(1, ValidToken(Shopper), body)
    \/ ValidateItem(1)
    \/ CountOrders(1, Today)
    \/ InsertOrder(1)
    \/ DecrementLine(1)
    \/ ClearCartAndRespond(1)
    \/ PersistenceFails(1)

SpecFail == Init /\ [][NextFail]_vars

\* ------------------------------------------------ reading orders back
BadOrderId == -1                  \* an :id for which ObjectId.isValid is false

\* Order.findById
FindById(ords, id) == IF id \in 1..Len(ords) THEN Some(ords[id]) ELSE None

\* user.role !== 'admin' && order.userId.toString() !== user.userId, negated
CanAccessOrderAnyone(user, order) == TRUE
CanAccessOrder(user, order) == IsAdmin(user) \/ order.userId = user.userId

\* the response of getOrderById for req.user = user
OrderByIdResponse(ords, user, id) ==
    LET answer(code, error, data) ==
            [op |-> "getOrderById", user |-> user.userId, code |-> code, error |-> error, data |-> data]
    IN  IF id = BadOrderId THEN answer(400, "Invalid order ID", <<>>)
        ELSE IF ~Present(FindById(ords, id)) THEN answer(404, "Order not found", <<>>)
        ELSE IF ~CanAccessOrder(user, Val(FindById(ords, id))) THEN answer(403, "Access denied", <<>>)
        ELSE answer(200, "", FindById(ords, id))

\* GET /api/orders/:id
GetOrderById(token, id) ==
    LET auth == AuthenticateToken(token) IN
    IF auth.code # 0 THEN Rejected("getOrderById", auth)
    ELSE /\ resp' = OrderByIdResponse(orders, auth.user, id)
         /\ UNCHANGED <<books, users, orders, reqs, categories>>

\* the filter getAllOrders builds from req.user and req.query
ListFilter(user, query) ==
    [userId |-> IF ~IsAdmin(user) /\ ~Present(query.userId) THEN Some(user.userId)
                ELSE IF Present(query.userId) THEN query.userId
                ELSE None,
     status |-> query.status]

Matches(order, filter) ==
    /\ Present(filter.userId) => order.userId = Val(filter.userId)
    /\ Present(filter.status) => order.status = Val(filter.status)

RECURSIVE Filter(_, _)
Filter(ords, filter) ==
    IF ords = <<>> THEN <<>>
    ELSE (IF Matches(ords[1], filter) THEN <<ords[1]>> ELSE <<>>) \o Filter(Tail(ords), filter)

CeilDiv(a, b) == (a + b - 1) \div b

\* Order.findAll: find(filter).sort({createdAt: -1}).skip(skip).limit(limit)
FindAll(ords, filter, page, limit) ==
    LET found == Reverse(Filter(ords, filter))
        skip == (page - 1) * limit
    IN  [orders |-> SubSeq(found, skip + 1, Min(Len(found), skip + limit)),
         pagination |-> [page |-> page, limit |-> limit, total |-> Len(found),
                         pages |-> CeilDiv(Len(found), limit)]]

\* the response of getAllOrders for req.user = user
ListResponse(ords, user, query) ==
    LET page == IF Present(query.page) THEN Val(query.page) ELSE 1
        limit == IF Present(query.limit) THEN Val(query.limit) ELSE 10
        result == FindAll(ords, ListFilter(user, query), page, limit)
    IN  [op |-> "getAllOrders", user |-> user.userId, code |-> 200, error |-> "",
         data |-> result.orders]

\* GET /api/orders
GetAllOrders(token, query) ==
    LET auth == AuthenticateToken(token) IN
    IF auth.code # 0 THEN Rejected("getAllOrders", auth)
    ELSE /\ resp' = ListResponse(orders, auth.user, query)
         /\ UNCHANGED <<books, users, orders, reqs, categories>>

ListQueries ==
    [userId : {None} \cup {Some(u) : u \in UserIds},
     status : {None, Some("pending"), Some("shipped")},
     page : {None, Some(2)},
     limit : {None, Some(1)}]

OneCopy(b) == GoodBody(<<[bookId |-> Some(b), quantity |-> Some(1)]>>)

\* orders placed by either user, and read back by either user
NextRead ==
    \/ \E u \in UserIds, b \in BookIds : CreateOrder(ValidToken(u), OneCopy(b), Today)
    \/ \E token \in Tokens, id \in {BadOrderId} \cup 1..MaxOrders : GetOrderById(token, id)
    \/ \E token \in Tokens, query \in ListQueries : GetAllOrders(token, query)

SpecRead == Init /\ [][NextRead]_vars

\* --------------------------------------- changing orders after creation
MaxHistory == 3          \* updateStatus is not started on an order with this many history entries

\* requireAdmin of the order, book and category routes: req.user.role is
\* what the token's claims carry, the users collection is not consulted
RequireAdmin(user) ==
    IF ~IsAdmin(user) THEN Fail(403, "Admin access required") ELSE Pass

\* validStatuses.includes(status)
ValidStatusAny(status) == Present(status)
ValidStatus(status) == Present(status) /\ Val(status) \in Statuses

\* user.role !== 'admin' && order.userId.toString() !== user.userId
StatusAccessDeniedNever(user, order) == FALSE
StatusAccessDenied(user, order) == ~IsAdmin(user) /\ order.userId # user.userId

\* user.role !== 'admin' && status !== 'cancelled' && order.status !== 'pending'
CancelGuard(user, status, order) ==
    ~IsAdmin(user) /\ status # "cancelled" /\ order.status # "pending"

\* Order.updateStatus: $set status, $push one statusHistory entry
UpdateStatus(ords, id, status, notes) ==
    [ords EXCEPT ![id] = [@ EXCEPT !.status = status,
                                   !.statusHistory = Append(@, [status |-> status, notes |-> notes])]]

\* updateOrderStatus run against the orders collection ords for
\* req.user = user: the collection it leaves and its response
RunUpdateOrderStatus(ords, user, id, body) ==
    LET answer(code, error) ==
            [orders |-> ords,
             resp |-> [op |-> "updateOrderStatus", user |-> user.userId, code |-> code,
                       error |-> error, data |-> <<>>]]
    IN  IF id = BadOrderId THEN answer(400, "Invalid order ID")
        ELSE IF ~ValidStatus(body.status) THEN answer(400, "Invalid status")
        ELSE IF ~Present(FindById(ords, id)) THEN answer(404, "Order not found")
        ELSE IF StatusAccessDenied(user, Val(FindById(ords, id))) THEN answer(403, "Access denied")
        ELSE IF CancelGuard(user, Val(body.status), Val(FindById(ords, id)))
        THEN answer(403, "You can only cancel pending orders")
        ELSE LET updated == UpdateStatus(ords, id, Val(body.status),
                                         IF Present(body.notes) THEN Val(body.notes) ELSE "")
             IN  [orders |-> updated,
                  resp |-> [op |-> "updateOrderStatus", user |-> user.userId, code |-> 200,
                            error |-> "", data |-> FindById(updated, id)]]

\* PUT /api/orders/:id/status
UpdateOrderStatus(token, id, body) ==
    LET auth == AuthenticateToken(token) IN
    IF auth.code # 0 THEN Rejected("updateOrderStatus", auth)
    ELSE LET r == RunUpdateOrderStatus(orders, auth.user, id, body) IN
         /\ r.resp.code = 200 => Len(orders[id].statusHistory) < MaxHistory
         /\ orders' = r.orders
         /\ resp' = r.resp
         /\ UNCHANGED <<books, users, reqs, categories>>

\* updateOrderStatus, one database call at a time: Order.findById and the
\* checks on what it returned ...
BeginUpdateStatus(c, token, id, body) ==
    /\ reqs[c].pc \in {"idle", "done"}
    /\ AuthenticateToken(token).code = 0
    /\ LET r == RunUpdateOrderStatus(orders, TokenClaims(token), id, body) IN
       IF r.resp.code # 200
       THEN /\ reqs' = [reqs EXCEPT ![c] = [IdleReq EXCEPT !.pc = "done", !.user = token.userId]]
            /\ resp' = r.resp
       ELSE /\ Len(orders[id].statusHistory)
                 + Cardinality({d \in Conns : reqs[d].pc = "updateStatus" /\ reqs[d].orderId = id}) < MaxHistory
            /\ reqs' = [reqs EXCEPT ![c] =
                   [IdleReq EXCEPT !.pc = "updateStatus", !.user = token.userId, !.orderId = id, !.body = body]]
            /\ UNCHANGED resp
    /\ UNCHANGED <<books, users, orders, categories>>

\* ... then Order.updateStatus, Order.findById and the response
WriteStatus(c) ==
    /\ reqs[c].pc = "updateStatus"
    /\ LET r == reqs[c]
           updated == UpdateStatus(orders, r.orderId, Val(r.body.status),
                                   IF Present(r.body.notes) THEN Val(r.body.notes) ELSE "")
       IN  /\ orders' = updated
           /\ resp' = [op |-> "updateOrderStatus", user |-> r.user, code |-> 200, error |-> "",
                       data |-> FindById(updated, r.orderId)]
    /\ reqs' = [reqs EXCEPT ![c].pc = "done"]
    /\ UNCHANGED <<books, users, categories>>

\* the shopper places orders and, on connection 1, cancels them with the
\* token login issued; on connection 2 a caller whose token carries role
\* admin moves them on; the database calls of the two interleave freely
NextStatusConc ==
    \/ CreateOrder(ValidToken(Shopper), OneCopy(1), Today)
    \/ \E id \in 1..MaxOrders, status \in {"cancelled", "shipped"} :
          BeginUpdateStatus(1, ValidToken(Shopper), id, [status |-> Some(status), notes |-> None])
    \/ \E id \in 1..MaxOrders, status \in {"confirmed", "shipped"} :
          BeginUpdateStatus(2, RoleToken(1, "admin"), id, [status |-> Some(status), notes |-> None])
    \/ \E c \in Conns : WriteStatus(c)

SpecStatusConc == Init /\ [][NextStatusConc]_vars

\* ------------------------------------------------------- getOrderStats
\* Order.getOrderStats: $match on userId when one is given, then one $group
OrderStatsDelivered(ords, userId) ==
    LET scope == {id \in 1..Len(ords) : ~Present(userId) \/ ords[id].userId = Val(userId)}
        count(status) == Cardinality({id \in scope : ords[id].status = status})
    IN  [totalOrders |-> Cardinality(scope),
         totalRevenue |-> SumSeq([id \in 1..Len(ords) |-> IF id \in scope THEN ords[id].totalAmount ELSE 0]),
         pendingOrders |-> count("pending"),
         completedOrders |-> count("delivered"),
         cancelledOrders |-> count("cancelled")]
OrderStats(ords, userId) ==
    LET scope == {id \in 1..Len(ords) : ~Present(userId) \/ ords[id].userId = Val(userId)}
        count(status) == Cardinality({id \in scope : ords[id].status = status})
    IN  [totalOrders |-> Cardinality(scope),
         totalRevenue |-> SumSeq([id \in 1..Len(ords) |-> IF id \in scope THEN ords[id].totalAmount ELSE 0]),
         pendingOrders |-> count("pending"),
         completedOrders |-> count("completed"),
         cancelledOrders |-> count("cancelled")]

\* targetUserId of getOrderStats: the caller's own id unless the caller is
\* an admin, for whom it is the userId of the query, if any
TargetUserIdOfQuery(user, query) ==
    IF Present(query.userId) THEN query.userId
    ELSE IF ~IsAdmin(user) THEN Some(user.userId) ELSE None
TargetUserId(user, query) ==
    IF ~IsAdmin(user) THEN Some(user.userId)
    ELSE IF Present(query.userId) THEN query.userId
    ELSE None

\* getOrderStats against ords for req.user = user
OrderStatsResponse(ords, user, query) ==
    [op |-> "getOrderStats", user |-> user.userId, code |-> 200, error |-> "",
     data |-> <<OrderStats(ords, TargetUserId(user, query))>>]

\* GET /api/orders/stats
GetOrderStats(token, query) ==
    LET auth == AuthenticateToken(token) IN
    IF auth.code # 0 THEN Rejected("getOrderStats", auth)
    ELSE /\ resp' = OrderStatsResponse(orders, auth.user, query)
         /\ UNCHANGED <<books, users, orders, reqs, categories>>

\* queries of GET /api/orders/stats
StatsQueries == {[userId |-> None]} \cup {[userId |-> Some(u)] : u \in UserIds}

\* callers of GET /api/orders/stats: no token, the token login issues to
\* either user, and a signed token that carries role admin
StatsTokens == BadTokens \cup {ValidToken(u) : u \in UserIds} \cup {RoleToken(1, "admin")}

\* orders are placed by either user and moved by updateOrderStatus alone:
\* cancelled by their owner, delivered by a caller whose token carries role
\* admin, and never to the status completed, which is refused
NextStats ==
    \/ \E u \in UserIds, b \in BookIds : CreateOrder(ValidToken(u), OneCopy(b), Today)
    \/ \E id \in 1..MaxOrders :
          \/ UpdateOrderStatus(ValidToken(Shopper), id, [status |-> Some("cancelled"), notes |-> None])
          \/ \E status \in {"delivered", "completed"} :
                UpdateOrderStatus(RoleToken(1, "admin"), id, [status |-> Some(status), notes |-> None])
    \/ \E token \in StatsTokens, query \in StatsQueries : GetOrderStats(token, query)

SpecStats == Init /\ [][NextStats]_vars

\* the fields of a PUT /api/orders/:id body the model follows
OrderUpdateFields == {"userId", "orderNumber", "items", "totalAmount", "status", "statusHistory"}

\* delete updateData.userId / orderNumber / createdAt / _id
StripNothing(updateData) == updateData
StripProtected(updateData) == [updateData EXCEPT !.userId = None, !.orderNumber = None]

\* Order.updateById: $set of every field the body carries
UpdateById(ords, id, updateData) ==
    [ords EXCEPT ![id] =
        [f \in DOMAIN @ |-> IF f \in OrderUpdateFields /\ Present(updateData[f])
                            THEN Val(updateData[f]) ELSE @[f]]]

\* requireAdmin and updateOrder run against ords for req.user = user
RunUpdateOrder(ords, user, id, updateData) ==
    LET answer(code, error) ==
            [orders |-> ords,
             resp |-> [op |-> "updateOrder", user |-> user.userId, code |-> code,
                       error |-> error, data |-> <<>>]]
    IN  IF RequireAdmin(user).code # 0 THEN answer(403, RequireAdmin(user).error)
        ELSE IF id = BadOrderId THEN answer(400, "Invalid order ID")
        ELSE IF ~Present(FindById(ords, id)) THEN answer(404, "Order not found")
        ELSE IF ~IsAdmin(user) THEN answer(403, "Only administrators can update order details")
        ELSE LET updated == UpdateById(ords, id, StripProtected(updateData))
             IN  [orders |-> updated,
                  resp |-> [op |-> "updateOrder", user |-> user.userId, code |-> 200,
                            error |-> "", data |-> FindById(updated, id)]]

\* PUT /api/orders/:id
UpdateOrder(token, id, updateData) ==
    LET auth == AuthenticateToken(token) IN
    IF auth.code # 0 THEN Rejected("updateOrder", auth)
    ELSE LET r == RunUpdateOrder(orders, auth.user, id, updateData) IN
         /\ orders' = r.orders
         /\ resp' = r.resp
         /\ UNCHANGED <<books, users, reqs, categories>>

\* requireAdmin and getUserOrders: the response for req.user = user
UserOrdersResponse(ords, user, userId) ==
    LET answer(code, error, data) ==
            [op |-> "getUserOrders", user |-> user.userId, code |-> code, error |-> error, data |-> data]
    IN  IF RequireAdmin(user).code # 0 THEN answer(403, RequireAdmin(user).error, <<>>)
        ELSE IF ~IsAdmin(user) THEN answer(403, "Access denied", <<>>)
        ELSE answer(200, "", FindAll(ords, [userId |-> Some(userId), status |-> None], 1, 10).orders)

\* GET /api/orders/user/:userId
GetUserOrders(token, userId) ==
    LET auth == AuthenticateToken(token) IN
    IF auth.code # 0 THEN Rejected("getUserOrders", auth)
    ELSE /\ resp' = UserOrdersResponse(orders, auth.user, userId)
         /\ UNCHANGED <<books, users, orders, reqs, categories>>

\* Book.updateById: $set of the fields the body carries
BookUpdateById(bks, id, updateData) ==
    [bks EXCEPT ![id] =
        [@ EXCEPT !.price = IF Present(updateData.price) THEN Val(updateData.price) ELSE @,
                  !.stock = IF Present(updateData.stock) THEN Val(updateData.stock) ELSE @,
                  !.category = IF Present(updateData.category) THEN updateData.category ELSE @]]

\* requireAdmin of the book routes and updateBook, against bks
RunUpdateBook(bks, user, id, updateData) ==
    LET answer(code, error) ==
            [books |-> bks,
             resp |-> [op |-> "updateBook", user |-> user.userId, code |-> code,
                       error |-> error, data |-> <<>>]]
    IN  IF RequireAdmin(user).code # 0 THEN answer(403, RequireAdmin(user).error)
        ELSE IF id = BadBookId THEN answer(400, "Invalid book ID")
        ELSE IF id \notin DOMAIN bks THEN answer(404, "Book not found")
        ELSE IF Present(updateData.price) /\ Val(updateData.price) # 0 /\ Val(updateData.price) <= 0
        THEN answer(400, "Price must be greater than 0")
        ELSE [books |-> BookUpdateById(bks, id, updateData),
              resp |-> [op |-> "updateBook", user |-> user.userId, code |-> 200,
                        error |-> "", data |-> <<BookUpdateById(bks, id, updateData)[id]>>]]

\* PUT /api/books/:id
UpdateBook(token, id, updateData) ==
    LET auth == AuthenticateToken(token) IN
    IF auth.code # 0 THEN Rejected("updateBook", auth)
    ELSE LET r == RunUpdateBook(books, auth.user, id, updateData) IN
         /\ books' = r.books
         /\ resp' = r.resp
         /\ UNCHANGED <<users, orders, reqs, categories>>

\* bodies of PUT /api/orders/:id/status: no status, an unknown status, and
\* two of the six statuses, one of them with notes
StatusBodies ==
    {[status |-> None, notes |-> None],
     [status |-> Some("refunded"), notes |-> None],
     [status |-> Some("shipped"), notes |-> None],
     [status |-> Some("cancelled"), notes |-> Some("by phone")]}

\* bodies of PUT /api/orders/:id: a forbidden field, a rewritten history,
\* rewritten lines and total
OrderUpdates ==
    {[userId |-> Some(1), orderNumber |-> Some("ORD-1"), items |-> None, totalAmount |-> None,
      status |-> None, statusHistory |-> None],
     [userId |-> None, orderNumber |-> None, items |-> None, totalAmount |-> None,
      status |-> Some("delivered"), statusHistory |-> Some(<<>>)],
     [userId |-> None, orderNumber |-> None, items |-> Some(<<>>), totalAmount |-> Some(1),
      status |-> None, statusHistory |-> None]}

\* bodies of PUT /api/books/:id
BookUpdates ==
    {[price |-> Some(9), stock |-> None, category |-> None],
     [price |-> None, stock |-> Some(9), category |-> None]}

OrderIds == {BadOrderId} \cup (1..MaxOrders)

\* orders placed by either user, then acted on by either user
NextStatus ==
    \/ \E u \in UserIds : CreateOrder(ValidToken(u), OneCopy(1), Today)
    \/ \E u \in UserIds, id \in OrderIds, body \in StatusBodies : UpdateOrderStatus(ValidToken(u), id, body)
    \/ \E token \in BadTokens : UpdateOrderStatus(token, 1, [status |-> Some("cancelled"), notes |-> None])
    \/ \E u \in UserIds, id \in OrderIds, updateData \in OrderUpdates : UpdateOrder(ValidToken(u), id, updateData)
    \/ \E u \in UserIds : GetUserOrders(ValidToken(u), Shopper)
    \/ \E u \in UserIds, b \in BookIds, updateData \in BookUpdates : UpdateBook(ValidToken(u), b, updateData)

SpecStatus == Init /\ [][NextStatus]_vars

\* the shopper places and cancels orders with the token login issued;
\* PUT /api/orders/:id and PUT /api/books/:id are called with a signed
\* token whose payload carries role admin, the only kind the admin gate of
\* the routes lets through
NextAdmin ==
    \/ CreateOrder(ValidToken(Shopper), OneCopy(1), Today)
    \/ UpdateOrderStatus(ValidToken(Shopper), 1, [status |-> Some("cancelled"), notes |-> Some("by phone")])
    \/ \E role \in {"user", "admin"}, id \in OrderIds, updateData \in OrderUpdates :
          UpdateOrder(RoleToken(1, role), id, updateData)
    \/ UpdateBook(RoleToken(1, "admin"), 1, [price |-> Some(9), stock |-> None, category |-> None])

SpecAdmin == Init /\ [][NextAdmin]_vars

\* ------------------------------------------------ ordering from the cart
\* PUT /api/users/cart/update: the cart it writes back.  quantity === 0
\* removes the line; any other value, undefined included, is stored.
CartAfterUpdateReplaceLine(cart, title, quantity) ==
    LET i == FindIndex(cart, title) IN
    IF Present(quantity) /\ Val(quantity) = 0
    THEN SubSeq(cart, 1, i - 1) \o SubSeq(cart, i + 1, Len(cart))
    ELSE [cart EXCEPT ![i] = [title |-> title, author |-> "", price |-> 0,
                              description |-> None, quantity |-> quantity]]
CartAfterUpdate(cart, title, quantity) ==
    LET i == FindIndex(cart, title) IN
    IF Present(quantity) /\ Val(quantity) = 0
    THEN SubSeq(cart, 1, i - 1) \o SubSeq(cart, i + 1, Len(cart))
    ELSE [cart EXCEPT ![i].quantity = quantity]

\* the handler of PUT /cart/update against usrs for req.user = user;
\* undefined < 0 is false
RunUpdateItem(usrs, user, body) ==
    LET answer(code, error) ==
            [users |-> usrs,
             resp |-> [op |-> "updateItem", user |-> user.userId, code |-> code,
                       error |-> error, data |-> <<>>]]
    IN  IF ~Present(body.title) \/ (Present(body.quantity) /\ Val(body.quantity) < 0)
        THEN answer(400, "Valid title and quantity are required")
        ELSE IF user.userId \notin DOMAIN usrs THEN answer(404, "User not found")
        ELSE IF FindIndex(usrs[user.userId].cart, Val(body.title)) = 0
        THEN answer(404, "Item not found in cart")
        ELSE [users |-> [usrs EXCEPT ![user.userId].cart =
                             CartAfterUpdate(@, Val(body.title), body.quantity)],
              resp |-> [op |-> "updateItem", user |-> user.userId, code |-> 200,
                        error |-> "", data |-> <<>>]]

\* PUT /api/users/cart/update
UpdateItem(token, body) ==
    LET auth == AuthenticateToken(token) IN
    IF auth.code # 0 THEN Rejected("updateItem", auth)
    ELSE LET r == RunUpdateItem(users, auth.user, body) IN
         /\ users' = r.users
         /\ resp' = r.resp
         /\ UNCHANGED <<books, orders, reqs, categories>>

\* user.cart.filter(item => item.title !== title)
RECURSIVE CartWithout(_, _)
CartWithout(cart, title) ==
    IF cart = <<>> THEN <<>>
    ELSE (IF cart[1].title # title THEN <<cart[1]>> ELSE <<>>) \o CartWithout(Tail(cart), title)

\* DELETE /api/users/cart/remove
RemoveItem(token, body) ==
    LET auth == AuthenticateToken(token)
        answer(code, error) ==
            /\ resp' = [op |-> "removeItem", user |-> auth.user.userId, code |-> code,
                        error |-> error, data |-> <<>>]
            /\ UNCHANGED <<books, users, orders, reqs, categories>>
    IN  IF auth.code # 0 THEN Rejected("removeItem", auth)
        ELSE IF ~Present(body.title) THEN answer(400, "Title is required")
        ELSE IF auth.user.userId \notin DOMAIN users THEN answer(404, "User not found")
        ELSE /\ users' = [users EXCEPT ![auth.user.userId].cart = CartWithout(@, Val(body.title))]
             /\ resp' = [op |-> "removeItem", user |-> auth.user.userId, code |-> 200,
                         error |-> "", data |-> <<>>]
             /\ UNCHANGED <<books, orders, reqs, categories>>

\* POST /api/users/cart/clear
CartClear(token) ==
    LET auth == AuthenticateToken(token) IN
    IF auth.code # 0 THEN Rejected("cartClear", auth)
    ELSE /\ users' = ClearCart(users, auth.user.userId)
         /\ resp' = [op |-> "cartClear", user |-> auth.user.userId, code |-> 200,
                     error |-> "", data |-> <<>>]
         /\ UNCHANGED <<books, orders, reqs, categories>>

\* ------------------------- cart requests, one database call at a time
\* A cart handler reads the user document (User.findById), changes the
\* cart of that copy in memory and writes the whole cart back
\* (User.updateById with {cart}).  Begin* is the read and the change in
\* memory, WriteCart the write and the response.
BeginCart(c, token, op, body, cart) ==
    /\ reqs[c].pc \in {"idle", "done"}
    /\ AuthenticateToken(token).code = 0
    /\ reqs' = [reqs EXCEPT ![c] = [IdleReq EXCEPT !.pc = op, !.user = token.userId, !.cart = cart]]
    /\ UNCHANGED <<books, users, orders, resp, categories>>

BeginAddItem(c, token, body) ==
    /\ RunAddItem(users, TokenClaims(token), body).resp.code = 200
    /\ CartQuantity(users[token.userId].cart) < MaxCart
    /\ BeginCart(c, token, "addItem", body, CartAfterAdd(users[token.userId].cart, body))

BeginUpdateItem(c, token, body) ==
    /\ RunUpdateItem(users, TokenClaims(token), body).resp.code = 200
    /\ BeginCart(c, token, "updateItem", body,
                 CartAfterUpdate(users[token.userId].cart, Val(body.title), body.quantity))

BeginRemoveItem(c, token, body) ==
    /\ Present(body.title)
    /\ token.userId \in DOMAIN users
    /\ BeginCart(c, token, "removeItem", body, CartWithout(users[token.userId].cart, Val(body.title)))

\* User.updateById(req.user.userId, {cart: user.cart}) and res.json
WriteCart(c) ==
    /\ reqs[c].pc \in {"addItem", "updateItem", "removeItem"}
    /\ users' = [users EXCEPT ![reqs[c].user].cart = reqs[c].cart]
    /\ resp' = [op |-> reqs[c].pc, user |-> reqs[c].user, code |-> 200, error |-> "", data |-> <<>>]
    /\ reqs' = [reqs EXCEPT ![c].pc = "done"]
    /\ UNCHANGED <<books, orders, categories>>

\* !userData || !userData.cart || userData.cart.length === 0
CartIsEmptyNever(usrs, userId) == FALSE
CartIsEmpty(usrs, userId) == userId \notin DOMAIN usrs \/ usrs[userId].cart = <<>>

\* {bookId: cartItem.bookId || cartItem._id, quantity: cartItem.quantity}
CartItemToOrderItem(cartItem) ==
    [bookId |-> IF "bookId" \in DOMAIN cartItem THEN Some(cartItem.bookId)
                ELSE IF "_id" \in DOMAIN cartItem THEN Some(cartItem._id)
                ELSE None,
     quantity |-> cartItem.quantity]

\* createOrderFromCart run to completion against <<bks, usrs, ords>>
RunCreateOrderFromCart(bks, usrs, ords, user, body, day) ==
    IF CartIsEmpty(usrs, user.userId)
    THEN [books |-> bks, users |-> usrs, orders |-> ords,
          resp |-> [op |-> "createOrderFromCart", user |-> user.userId, code |-> 400,
                    error |-> "Cart is empty", data |-> <<>>]]
    ELSE LET cart == usrs[user.userId].cart
             items == [i \in 1..Len(cart) |-> CartItemToOrderItem(cart[i])]
             r == RunCreateOrder(bks, usrs, ords, user,
                                 [items |-> Some(items),
                                  shippingAddress |-> body.shippingAddress,
                                  paymentMethod |-> body.paymentMethod], day)
         IN  [r EXCEPT !.resp.op = "createOrderFromCart"]

\* POST /api/orders/from-cart
CreateOrderFromCart(token, body, day) ==
    /\ Len(orders) < MaxOrders
    /\ LET auth == AuthenticateToken(token) IN
       IF auth.code # 0 THEN Rejected("createOrderFromCart", auth)
       ELSE LET r == RunCreateOrderFromCart(books, users, orders, auth.user, body, day) IN
            /\ books' = r.books
            /\ users' = r.users
            /\ orders' = r.orders
            /\ resp' = r.resp
            /\ UNCHANGED <<reqs, categories>>

\* bodies of POST /api/orders/from-cart
FromCartBody == [shippingAddress |-> Some(FullAddress), paymentMethod |-> Some("card")]
FromCartBodies == {FromCartBody, [shippingAddress |-> Some(FullAddress), paymentMethod |-> None]}

Titles == {SeedBook(b).title : b \in BookIds}

\* carts filled and changed, orders placed from the cart and directly
NextFromCart ==
    \/ \E u \in UserIds, title \in Titles : AddItem(ValidToken(u), CartBody(Some(title)))
    \/ \E u \in UserIds, title \in Titles, q \in {0, 2} :
          UpdateItem(ValidToken(u), [title |-> Some(title), quantity |-> Some(q)])
    \/ \E u \in UserIds, body \in FromCartBodies : CreateOrderFromCart(ValidToken(u), body, Today)
    \/ \E token \in BadTokens : CreateOrderFromCart(token, FromCartBody, Today)
    \/ \E u \in UserIds : CreateOrder(ValidToken(u), OneCopy(1), Today)

SpecFromCart == Init /\ [][NextFromCart]_vars

\* ------------------------------------------------------- cart requests
CartBodyAt(title, price) ==
    [title |-> title, author |-> Some("author"), price |-> Some(price), description |-> None]

\* prices a client sends for a title: the seeded one and another
CartPrices == {2, 5}

\* bodies of PUT /cart/update: no title, no quantity, a negative quantity,
\* zero, a positive quantity
UpdateBodies ==
    {[title |-> None, quantity |-> Some(1)]}
        \cup [title : {Some(t) : t \in Titles}, quantity : {None, Some(-1), Some(0), Some(2)}]

\* the cart requests of one user, one request at a time
NextCartOps ==
    \/ \E title \in Titles, price \in CartPrices : AddItem(ValidToken(Shopper), CartBodyAt(Some(title), price))
    \/ AddItem(ValidToken(Shopper), CartBodyAt(None, 2))
    \/ \E body \in UpdateBodies : UpdateItem(ValidToken(Shopper), body)
    \/ \E title \in {None} \cup {Some(t) : t \in Titles} : RemoveItem(ValidToken(Shopper), [title |-> title])
    \/ CartClear(ValidToken(Shopper))
    \/ \E token \in BadTokens :
          \/ AddItem(token, CartBody(Some("Dune")))
          \/ UpdateItem(token, [title |-> Some("Dune"), quantity |-> Some(0)])
          \/ RemoveItem(token, [title |-> Some("Dune")])
          \/ CartClear(token)

SpecCartOps == Init /\ [][NextCartOps]_vars

\* two connections of one user whose cart requests interleave
NextCartConc ==
    \/ \E c \in Conns, title \in Titles : BeginAddItem(c, ValidToken(Shopper), CartBody(Some(title)))
    \/ \E c \in Conns, q \in {0, 2} :
          BeginUpdateItem(c, ValidToken(Shopper), [title |-> Some("Dune"), quantity |-> Some(q)])
    \/ \E c \in Conns : BeginRemoveItem(c, ValidToken(Shopper), [title |-> Some("Emma")])
    \/ \E c \in Conns : WriteCart(c)

SpecCartConc == Init /\ [][NextCartConc]_vars

\* two connections of one user that only add items, at either price
NextAddConc ==
    \/ \E c \in Conns, title \in Titles, price \in CartPrices :
          BeginAddItem(c, ValidToken(Shopper), CartBodyAt(Some(title), price))
    \/ \E c \in Conns : WriteCart(c)

SpecAddConc == Init /\ [][NextAddConc]_vars

\* --------------------------------------------- bookController: the catalog
\* createBook is not started on a catalog of this many books
MaxBooks == 3

\* requireAdmin of the book routes and createBook, against bks; prices and
\* stocks are numbers
RunCreateBook(bks, user, body) ==
    LET answer(code, error) ==
            [books |-> bks,
             resp |-> [op |-> "createBook", user |-> user.userId, code |-> code,
                       error |-> error, data |-> <<>>]]
        id == Cardinality(DOMAIN bks) + 1
    IN  IF RequireAdmin(user).code # 0 THEN answer(403, RequireAdmin(user).error)
        ELSE IF \/ ~Present(body.title) \/ ~Present(body.author) \/ ~Present(body.category)
                \/ ~Present(body.price) \/ Val(body.price) = 0
        THEN answer(400, "Title, author, price, and category are required")
        ELSE IF Val(body.price) <= 0 THEN answer(400, "Price must be greater than 0")
        ELSE LET bookData == [title |-> Val(body.title), author |-> Val(body.author),
                              price |-> Val(body.price), category |-> body.category,
                              stock |-> IF Present(body.stock) THEN Val(body.stock) ELSE 0]
             IN  [books |-> [b \in DOMAIN bks \cup {id} |-> IF b = id THEN bookData ELSE bks[b]],
                  resp |-> [op |-> "createBook", user |-> user.userId, code |-> 201,
                            error |-> "", data |-> <<bookData>>]]

\* POST /api/books
CreateBook(token, body) ==
    LET auth == AuthenticateToken(token) IN
    IF auth.code # 0 THEN Rejected("createBook", auth)
    ELSE LET r == RunCreateBook(books, auth.user, body) IN
         /\ r.resp.code = 201 => Cardinality(DOMAIN books) < MaxBooks
         /\ books' = r.books
         /\ resp' = r.resp
         /\ UNCHANGED <<users, orders, reqs, categories>>

\* prices a request may carry: none, zero, a negative and a positive one
BodyPrices == {None, Some(0), Some(-1), Some(7)}

BookBody(price) ==
    [title |-> Some("Ulysses"), author |-> Some("author"), price |-> price,
     category |-> Some(HexOf(1)), stock |-> Some(1)]

PriceUpdate(price) == [price |-> price, stock |-> None, category |-> None]

StockUpdate == [price |-> None, stock |-> Some(9), category |-> None]

\* the book routes called with a signed token that carries role admin, with
\* the token login issues and with none, next to orders of the shopper
NextCatalog ==
    \/ \E price \in BodyPrices : CreateBook(RoleToken(1, "admin"), BookBody(price))
    \/ \E id \in {BadBookId, 1, GhostBookId}, price \in BodyPrices :
          UpdateBook(RoleToken(1, "admin"), id, PriceUpdate(price))
    \/ UpdateBook(RoleToken(1, "admin"), 1, StockUpdate)
    \/ \E token \in BadTokens \cup {ValidToken(1)} :
          \/ CreateBook(token, BookBody(Some(7)))
          \/ UpdateBook(token, 1, PriceUpdate(Some(7)))
    \/ CreateOrder(ValidToken(Shopper), OneCopy(1), Today)

SpecCatalog == Init /\ [][NextCatalog]_vars

\* ------------------------------------------- routes/user.js: register
\* String.prototype.toLowerCase on the emails a request here carries
ToLowerCase(email) ==
    IF email = "John@example.com" THEN "john@example.com"
    ELSE IF email = "Amy@example.com" THEN "amy@example.com"
    ELSE email

\* User.findByEmail: findOne({ email }), an exact match; whether one exists
FindByEmail(usrs, email) == \E u \in DOMAIN usrs : usrs[u].email = email

\* register is not started on a collection of this many users
MaxUsers == 4

\* the shortest password register accepts
MinPassword == 6

\* register against usrs; body.password is the length of the password sent
RunRegister(usrs, body) ==
    LET answer(code, error) ==
            [users |-> usrs,
             resp |-> [op |-> "register", user |-> 0, code |-> code, error |-> error, data |-> <<>>]]
        id == Cardinality(DOMAIN usrs) + 1
    IN  IF ~Present(body.name) \/ ~Present(body.email) \/ ~Present(body.password)
           \/ Val(body.password) = 0
        THEN answer(400, "Name, email, and password are required")
        ELSE IF Val(body.password) < MinPassword
        THEN answer(400, "Password must be at least 6 characters long")
        ELSE IF FindByEmail(usrs, Val(body.email))
        THEN answer(409, "User with this email already exists")
        ELSE LET userData == [email |-> ToLowerCase(Val(body.email)), role |-> "user", cart |-> <<>>] IN
             [users |-> [u \in DOMAIN usrs \cup {id} |-> IF u = id THEN userData ELSE usrs[u]],
              resp |-> [op |-> "register", user |-> id, code |-> 201, error |-> "",
                        data |-> <<[id |-> id, email |-> userData.email]>>]]

\* POST /api/users/register
Register(body) ==
    LET r == RunRegister(users, body) IN
    /\ r.resp.code = 201 => Cardinality(DOMAIN users) < MaxUsers
    /\ users' = r.users
    /\ resp' = r.resp
    /\ UNCHANGED <<books, orders, reqs, categories>>

\* emails a registration may carry: the seeded user's, a new one, each
\* also with a capital
RegisterEmails == {"john@example.com", "John@example.com", "amy@example.com", "Amy@example.com"}

RegisterBody(email, password) == [name |-> Some("name"), email |-> email, password |-> Some(password)]

RegisterBodies ==
    {RegisterBody(Some(email), 8) : email \in RegisterEmails}
        \cup {RegisterBody(None, 8), RegisterBody(Some("amy@example.com"), 3)}

\* registrations, next to the seeded shopper filling a cart
NextRegister ==
    \/ \E body \in RegisterBodies : Register(body)
    \/ \E title \in Titles : AddItem(ValidToken(Shopper), CartBodyAt(Some(title), 2))
    \/ CartClear(ValidToken(Shopper))

SpecRegister == Init /\ [][NextRegister]_vars

\* ------------------------------------------------ categoryController.js
\* toLowerCase on the letters the names here use
Lower(ch) ==
    IF ch = "F" THEN "f" ELSE IF ch = "P" THEN "p" ELSE IF ch = "S" THEN "s" ELSE ch

\* String.prototype.trim
RECURSIVE TrimStart(_)
TrimStart(str) == IF str # <<>> /\ Head(str) = " " THEN TrimStart(Tail(str)) ELSE str

RECURSIVE TrimEnd(_)
TrimEnd(str) ==
    IF str # <<>> /\ str[Len(str)] = " " THEN TrimEnd(SubSeq(str, 1, Len(str) - 1)) ELSE str

Trim(str) == TrimEnd(TrimStart(str))

\* { $regex: `^${name}$`, $options: "i" } against a stored name, for a
\* name of letters and spaces: every character must match, case aside
RegexMatchI(name, stored) ==
    /\ Len(name) = Len(stored)
    /\ \A i \in 1..Len(name) : Lower(name[i]) = Lower(stored[i])

\* the _ids of the categories in the collection
CategoryIds(cats) == {c \in 1..Len(cats) : Present(cats[c])}

\* Category.findById
CategoryFindById(cats, id) == IF id \in CategoryIds(cats) THEN cats[id] ELSE None

\* Category.findByName: whether a document matches
FindByName(cats, name) ==
    \E c \in CategoryIds(cats) : RegexMatchI(name, Val(cats[c]).name)

\* Category.countBooks: countDocuments({ category: categoryId }); a string
\* equals a string and an ObjectId an ObjectId, never one the other
CountBooks(bks, categoryId) ==
    Cardinality({b \in DOMAIN bks : bks[b].category = Some(categoryId)})

\* updateMany({ category: id }, { $unset: { category: "" } })
UnsetCategory(bks, categoryId) ==
    [b \in DOMAIN bks |->
        IF bks[b].category = Some(categoryId) THEN [bks[b] EXCEPT !.category = None] ELSE bks[b]]

\* createCategory is not started on a collection that ever held this many
MaxCategories == 3

BadCategoryId == -1               \* a string ObjectId.isValid refuses

\* createCategory against cats
RunCreateCategory(cats, user, body) ==
    LET answer(code, error) ==
            [categories |-> cats,
             resp |-> [op |-> "createCategory", user |-> user.userId, code |-> code,
                       error |-> error, data |-> <<>>]]
    IN  IF RequireAdmin(user).code # 0 THEN answer(403, RequireAdmin(user).error)
        ELSE IF ~Present(body.name) \/ Val(body.name) = <<>>
        THEN answer(400, "Category name is required")
        ELSE IF FindByName(cats, Val(body.name))
        THEN answer(409, "Category with this name already exists")
        ELSE LET category == [name |-> Trim(Val(body.name)), isActive |-> TRUE] IN
             [categories |-> Append(cats, Some(category)),
              resp |-> [op |-> "createCategory", user |-> user.userId, code |-> 201,
                        error |-> "", data |-> <<category>>]]

\* POST /api/categories
CreateCategory(token, body) ==
    LET auth == AuthenticateToken(token) IN
    IF auth.code # 0 THEN Rejected("createCategory", auth)
    ELSE LET r == RunCreateCategory(categories, auth.user, body) IN
         /\ r.resp.code = 201 => Len(categories) < MaxCategories
         /\ categories' = r.categories
         /\ resp' = r.resp
         /\ UNCHANGED <<books, users, orders, reqs>>

\* updateCategory against cats
RunUpdateCategory(cats, user, id, updateData) ==
    LET answer(code, error) ==
            [categories |-> cats,
             resp |-> [op |-> "updateCategory", user |-> user.userId, code |-> code,
                       error |-> error, data |-> <<>>]]
    IN  IF RequireAdmin(user).code # 0 THEN answer(403, RequireAdmin(user).error)
        ELSE IF id = BadCategoryId THEN answer(400, "Invalid category ID")
        ELSE IF ~Present(CategoryFindById(cats, id)) THEN answer(404, "Category not found")
        ELSE IF /\ Present(updateData.name) /\ Val(updateData.name) # <<>>
                /\ Val(updateData.name) # Val(cats[id]).name
                /\ FindByName(cats, Val(updateData.name))
        THEN answer(409, "Category with this name already exists")
        ELSE LET name == IF ~Present(updateData.name) THEN Val(cats[id]).name
                         ELSE IF Val(updateData.name) # <<>> /\ Val(updateData.name) # Val(cats[id]).name
                         THEN Trim(Val(updateData.name))
                         ELSE Val(updateData.name)
                 updated == [cats EXCEPT ![id] = Some([Val(@) EXCEPT !.name = name])]
             IN  [categories |-> updated,
                  resp |-> [op |-> "updateCategory", user |-> user.userId, code |-> 200,
                            error |-> "", data |-> updated[id]]]

\* PUT /api/categories/:id
UpdateCategory(token, id, updateData) ==
    LET auth == AuthenticateToken(token) IN
    IF auth.code # 0 THEN Rejected("updateCategory", auth)
    ELSE LET r == RunUpdateCategory(categories, auth.user, id, updateData) IN
         /\ categories' = r.categories
         /\ resp' = r.resp
         /\ UNCHANGED <<books, users, orders, reqs>>

\* deleteCategory against cats and bks; id is the string of the path, force
\* the query parameter
RunDeleteCategory(cats, bks, user, id, force) ==
    LET answer(code, error, data) ==
            [categories |-> cats, books |-> bks,
             resp |-> [op |-> "deleteCategory", user |-> user.userId, code |-> code,
                       error |-> error, data |-> data]]
        bookCount == CountBooks(bks, HexOf(id))
    IN  IF RequireAdmin(user).code # 0 THEN answer(403, RequireAdmin(user).error, <<>>)
        ELSE IF id = BadCategoryId THEN answer(400, "Invalid category ID", <<>>)
        ELSE IF bookCount > 0 /\ force # Some("true")
        THEN answer(400, "Cannot delete category with books", <<bookCount>>)
        ELSE IF ~Present(CategoryFindById(cats, id)) THEN answer(404, "Category not found", <<>>)
        ELSE [categories |-> [cats EXCEPT ![id] = None],
              books |-> IF force = Some("true") /\ bookCount > 0
                        THEN UnsetCategory(bks, HexOf(id)) ELSE bks,
              resp |-> [op |-> "deleteCategory", user |-> user.userId, code |-> 200,
                        error |-> "", data |-> <<>>]]

\* DELETE /api/categories/:id
DeleteCategory(token, id, force) ==
    LET auth == AuthenticateToken(token) IN
    IF auth.code # 0 THEN Rejected("deleteCategory", auth)
    ELSE LET r == RunDeleteCategory(categories, books, auth.user, id, force) IN
         /\ categories' = r.categories
         /\ books' = r.books
         /\ resp' = r.resp
         /\ UNCHANGED <<users, orders, reqs>>

\* names a request may carry: seeded names in another case or with a
\* trailing space, and a new one
FantasyLower == <<"f", "a", "n", "t", "a", "s", "y">>
FantasyPadded == Fantasy \o <<" ">>
Poetry == <<"P", "o", "e", "t", "r", "y">>

CategoryNames == {FantasyLower, FantasyPadded, Poetry}

CategoryBodies == {[name |-> None]} \cup {[name |-> Some(name)] : name \in CategoryNames}

CategoryIdsAny == {BadCategoryId} \cup (1..MaxCategories)

Forces == {None, Some("true")}

\* the category routes called with a signed token that carries role admin
\* and with the token login issues; PUT /api/books/:id files the second
\* book under a category the way a JSON body names it, by its hex string
NextCategory ==
    \/ \E body \in CategoryBodies : CreateCategory(RoleToken(1, "admin"), body)
    \/ \E id \in CategoryIdsAny, body \in CategoryBodies : UpdateCategory(RoleToken(1, "admin"), id, body)
    \/ \E id \in CategoryIdsAny, force \in Forces : DeleteCategory(RoleToken(1, "admin"), id, force)
    \/ \E token \in BadTokens \cup {ValidToken(1)} :
          \/ CreateCategory(token, [name |-> Some(Poetry)])
          \/ UpdateCategory(token, 1, [name |-> Some(Poetry)])
          \/ DeleteCategory(token, 1, Some("true"))
    \/ \E c \in 1..2 :
          UpdateBook(RoleToken(1, "admin"), 2, [price |-> None, stock |-> None, category |-> Some(HexOf(c))])

SpecCategory == Init /\ [][NextCategory]_vars

\* ----------------------------------------------------- middleware/auth.js
\* Roles a signed payload may carry besides none
TokenRoles == {Undefined, "user", "admin"}

\* every token: none, invalid, and the signed ones with and without role
AllTokens == Tokens \cup {RoleToken(u, role) : u \in UserIds, role \in TokenRoles}

\* optionalAuth: req.user and the number of times next() is called;
\* code is the status of a response sent instead (0: none sent)
OptionalAuthStrict(token) ==
    IF token.kind = "none" THEN [code |-> 0, next |-> 1, user |-> None]
    ELSE IF token.kind = "invalid" THEN [code |-> 403, next |-> 0, user |-> None]
    ELSE [code |-> 0, next |-> 1, user |-> Some(TokenClaims(token))]
OptionalAuth(token) ==
    IF token.kind = "none" THEN [code |-> 0, next |-> 1, user |-> None]
    ELSE IF token.kind = "invalid" THEN [code |-> 0, next |-> 1, user |-> None]
    ELSE [code |-> 0, next |-> 1, user |-> Some(TokenClaims(token))]

\* requireAdmin of middleware/auth.js: the role is read from the users
\* collection; no route of the server mounts it
RequireAdminStored(usrs, user) ==
    IF user.userId \notin DOMAIN usrs \/ usrs[user.userId].role # "admin"
    THEN Fail(403, "Admin access required")
    ELSE Pass

\* a request passed through optionalAuth alone
ApplyOptionalAuth(token) ==
    /\ resp' = [op |-> "optionalAuth",
                user |-> IF Present(OptionalAuth(token).user) THEN Val(OptionalAuth(token).user).userId ELSE 0,
                code |-> OptionalAuth(token).code, error |-> "", data |-> <<OptionalAuth(token)>>]
    /\ UNCHANGED <<books, users, orders, reqs, categories>>

\* a request passed through authenticateToken and requireAdmin of
\* middleware/auth.js
ApplyRequireAdminStored(token) ==
    LET auth == AuthenticateToken(token) IN
    IF auth.code # 0 THEN Rejected("requireAdminStored", auth)
    ELSE /\ resp' = [op |-> "requireAdminStored", user |-> auth.user.userId,
                     code |-> RequireAdminStored(users, auth.user).code,
                     error |-> RequireAdminStored(users, auth.user).error, data |-> <<>>]
         /\ UNCHANGED <<books, users, orders, reqs, categories>>

\* cart requests for a changing users collection, the middleware of
\* middleware/auth.js, and an admin-gated order route
NextAuth ==
    \/ \E title \in Titles, price \in CartPrices : AddItem(ValidToken(Shopper), CartBodyAt(Some(title), price))
    \/ \E title \in Titles : UpdateItem(ValidToken(Shopper), [title |-> Some(title), quantity |-> Some(0)])
    \/ \E token \in AllTokens : ApplyOptionalAuth(token)
    \/ \E token \in AllTokens : ApplyRequireAdminStored(token)
    \/ \E token \in AllTokens, u \in UserIds : GetUserOrders(token, u)

SpecAuth == Init /\ [][NextAuth]_vars

\* ================================================================ claims
\* What createOrder would answer, and leave behind, in the current state.
Run(u, body) == RunCreateOrder(books, users, orders, TokenClaims(ValidToken(u)), body, Today)

DbOf(r) == <<r.books, r.users, r.orders>>
Db == <<books, users, orders>>

\* parseInt of a digit sequence
RECURSIVE ParseInt(_)
ParseInt(ds) == IF ds = <<>> THEN 0 ELSE 10 * ParseInt(SubSeq(ds, 1, Len(ds) - 1)) + ds[Len(ds)]

RECURSIVE QuantityFor(_, _)
\* the quantity a list of request lines orders of book b, over all its lines
QuantityFor(items, b) ==
    IF items = <<>> THEN 0
    ELSE (IF Val(items[1].bookId) = b THEN Val(items[1].quantity) ELSE 0) + QuantityFor(Tail(items), b)

\* C1: a createOrder that succeeds persists, per requested line, a line with
\* the requested quantity, the book's price as it is when the request is
\* validated, and subtotal = price * quantity; totalAmount is the sum of
\* the line subtotals; the order returned is the order persisted.
C1_TotalsMatchLines ==
    \A body \in GoodBodies :
        LET r == Run(Shopper, body) IN
        r.resp.code = 201 =>
            LET o == r.orders[Len(r.orders)]
                items == Val(body.items)
            IN  /\ r.resp.data = <<o>>
                /\ Len(o.items) = Len(items)
                /\ \A i \in 1..Len(items) :
                      /\ o.items[i].bookId = Val(items[i].bookId)
                      /\ o.items[i].quantity = Val(items[i].quantity)
                      /\ o.items[i].price = books[Val(items[i].bookId)].price
                      /\ o.items[i].subtotal = o.items[i].price * o.items[i].quantity
                /\ o.totalAmount = SumSeq([i \in 1..Len(o.items) |-> o.items[i].subtotal])

\* an order of two lines for two different books has been created
C1_Witness ==
    /\ resp.op = "createOrder" /\ resp.code = 201
    /\ Len(resp.data[1].items) = 2
    /\ resp.data[1].items[1].bookId # resp.data[1].items[2].bookId
    /\ resp.data[1].items[2].quantity = 2
    /\ resp.data[1].totalAmount = 2 * resp.data[1].items[1].quantity + 3 * resp.data[1].items[2].quantity
         \/ resp.data[1].totalAmount = 3 * resp.data[1].items[1].quantity + 2 * resp.data[1].items[2].quantity

\* C2: a createOrder that succeeds lowers the stock of each book by the
\* quantity ordered of it (0 for a book not in the order), changes nothing
\* else in the catalog, and empties the cart of the ordering user and of
\* nobody else.
C2_StockAndCartAfterOrder ==
    \A orderer \in UserIds, body \in GoodBodies :
        LET r == Run(orderer, body) IN
        r.resp.code = 201 =>
            /\ DOMAIN r.books = DOMAIN books
            /\ \A b \in DOMAIN books :
                  /\ r.books[b].stock = books[b].stock - QuantityFor(Val(body.items), b)
                  /\ r.books[b].price = books[b].price
                  /\ r.books[b].title = books[b].title
            /\ r.users[orderer].cart = <<>>
            /\ \A u \in UserIds \ {orderer} : r.users[u] = users[u]

\* user 2's order for two copies of book 1 went through while user 1's
\* cart was filled: book 2 keeps its stock, user 1 keeps the cart
C2_Witness ==
    /\ resp.op = "createOrder" /\ resp.code = 201 /\ resp.user = 2
    /\ Len(orders) = 1
    /\ books[1].stock = InitStock - 2
    /\ books[2].stock = InitStock
    /\ users[2].cart = <<>>
    /\ users[1].cart # <<>>

\* line i of items names an existing book and asks for more than its stock
Overstocked(items, i) ==
    /\ Present(items[i].bookId) /\ Present(items[i].quantity)
    /\ Val(items[i].bookId) \in DOMAIN books
    /\ Val(items[i].quantity) > books[Val(items[i].bookId)].stock

\* line i of items names an existing book and a positive quantity within
\* its stock
LineInStock(items, i) ==
    /\ Present(items[i].bookId) /\ Present(items[i].quantity)
    /\ Val(items[i].bookId) \in DOMAIN books
    /\ Val(items[i].quantity) > 0
    /\ Val(items[i].quantity) <= books[Val(items[i].bookId)].stock

AddressComplete(body) ==
    Present(body.shippingAddress) /\ FullAddress \subseteq Val(body.shippingAddress)

BodyComplete(body) ==
    /\ Present(body.items) /\ Val(body.items) # <<>>
    /\ AddressComplete(body)
    /\ Present(body.paymentMethod)

NoPositiveQuantity(items, i) == ~Present(items[i].quantity) \/ Val(items[i].quantity) <= 0

\* line i is well formed and names a book that does not exist
BookMissing(items, i) ==
    /\ Present(items[i].bookId) /\ Present(items[i].quantity)
    /\ Val(items[i].quantity) > 0
    /\ Val(items[i].bookId) # BadBookId
    /\ Val(items[i].bookId) \notin DOMAIN books

C5_StockNeverNegative == \A b \in DOMAIN books : books[b].stock >= 0

\* C7: the n-th order persisted carries NNNN = n, four digits wide, and no
\* two persisted orders carry the same order number.
C7_SequentialOrderNumbers ==
    /\ \A n \in 1..Len(orders) :
          /\ orders[n].orderNumber[1] = "ORD"
          /\ Len(orders[n].orderNumber[3]) = 4
          /\ ParseInt(orders[n].orderNumber[3]) = n
    /\ \A m, n \in 1..Len(orders) : m # n => orders[m].orderNumber # orders[n].orderNumber

C7_Witness == Len(orders) = MaxOrders /\ MaxOrders >= 2

\* the stock the decrements applied so far by connection c took from book b
RECURSIVE AppliedTo(_, _, _)
AppliedTo(lines, n, b) ==
    IF n = 0 THEN 0
    ELSE (IF lines[n].bookId = b THEN lines[n].quantity ELSE 0) + AppliedTo(lines, n - 1, b)

Applied(c, b) == AppliedTo(reqs[c].validatedItems, reqs[c].k - 1, b)

\* C6: with overlapping requests every validated line passed its check
\* against the stock its own read returned, and every decrement is applied
\* in full whatever the stock has become meanwhile: a book's stock is the
\* seeded stock minus all decrements applied.  (The state the claim names,
\* a stock below zero after two single-line orders that both read the
\* seeded stock, is C6_Witness.)
C6_DecrementsApplyUnchecked ==
    /\ \A b \in DOMAIN books :
          books[b].stock = InitStock - SumSeq([c \in 1..Cardinality(Conns) |-> Applied(c, b)])
    /\ \A c \in Conns :
          reqs[c].validatedItems # <<>> =>
              LET last == reqs[c].validatedItems[Len(reqs[c].validatedItems)] IN
              /\ Present(reqs[c].book)
              /\ last.quantity <= Val(reqs[c].book).stock
              /\ last.price = Val(reqs[c].book).price

C6_Witness ==
    /\ \A c \in Conns :
          /\ reqs[c].pc = "done"
          /\ Len(reqs[c].validatedItems) = 1
          /\ reqs[c].validatedItems[1].bookId = 1
          /\ reqs[c].orderId # 0
          /\ Val(reqs[c].book).stock = InitStock
    /\ Len(orders) = 2
    /\ books[1].stock < 0

\* C8: with overlapping requests the number of a persisted order is the
\* count its own request read, plus 1, and that count is at most the number
\* of orders inserted before it: nothing ties it to the order's position.
\* (The state the claim names, two persisted orders with one order number,
\* is C8_Witness.)
C8_NumberFromOwnCount ==
    \A c \in Conns :
        reqs[c].orderId # 0 =>
            LET o == orders[reqs[c].orderId] IN
            /\ o.userId = reqs[c].user
            /\ o.orderNumber = reqs[c].orderNumber
            /\ ParseInt(o.orderNumber[3]) = reqs[c].count + 1
            /\ reqs[c].count <= reqs[c].orderId - 1

C8_Witness ==
    /\ Len(orders) = 2
    /\ orders[1].orderNumber = orders[2].orderNumber
    /\ orders[1].userId # orders[2].userId
    /\ reqs[1].count = 0 /\ reqs[2].count = 0

\* C9: getOrderById answers a caller who is not the order's owner (and is
\* no admin as far as req.user tells) 403 without any order data, and
\* answers the owner 200 with the order.
C9_OrderReadByOwnerOnly ==
    /\ \A u \in UserIds, id \in 1..Len(orders) :
          LET user == AuthenticateToken(ValidToken(u)).user
              r == OrderByIdResponse(orders, user, id)
          IN  /\ (~IsAdmin(user) /\ orders[id].userId # u) => (r.code = 403 /\ r.data = <<>>)
              /\ orders[id].userId = u => (r.code = 200 /\ r.data = <<orders[id]>>)
    /\ (resp.op = "getOrderById" /\ resp.data # <<>>) => resp.data[1].userId = resp.user

\* user 2 was refused user 1's order
C9_Witness ==
    /\ resp.op = "getOrderById" /\ resp.code = 403 /\ resp.error = "Access denied"
    /\ resp.user = 2
    /\ Len(orders) = 2
    /\ orders[1].userId = 1 /\ orders[2].userId = 2

\* C10: every order getAllOrders returns belongs to the caller.
C10_ListOwnOrdersOnly ==
    (resp.op = "getAllOrders" /\ resp.code = 200) =>
        \A i \in 1..Len(resp.data) : resp.data[i].userId = resp.user

\* ---------------------------------------------- claims on order updates
\* req.user of a request carrying the token login issued to user u
Claims(u) == TokenClaims(ValidToken(u))

\* the role the users collection stores for u
StoredAdmin(u) == users[u].role = "admin"

\* what updateOrderStatus would answer, and leave behind, in the current state
SetStatus(u, id, status) ==
    RunUpdateOrderStatus(orders, Claims(u), id, [status |-> Some(status), notes |-> None])

IsPrefix(s, t) == Len(s) <= Len(t) /\ SubSeq(t, 1, Len(s)) = s

\* C11: updateOrderStatus by a user whose stored role is not admin, on an
\* order of another user, answers 403 for each of the six statuses and
\* leaves the orders collection as it was; no status update that went
\* through was on somebody else's order.
C11_OthersOrderStatusForbidden ==
    /\ \A u \in UserIds, id \in 1..Len(orders), status \in Statuses :
          (~StoredAdmin(u) /\ orders[id].userId # u) =>
              LET r == SetStatus(u, id, status) IN
              r.resp.code = 403 /\ r.orders = orders
    /\ (resp.op = "updateOrderStatus" /\ resp.code = 200) => resp.data[1].userId = resp.user

\* user 2 was refused a status change on user 1's only order, which still
\* is as created
C11_Witness ==
    /\ resp.op = "updateOrderStatus" /\ resp.code = 403 /\ resp.error = "Access denied"
    /\ resp.user = 2
    /\ Len(orders) = 1
    /\ orders[1].userId = 1
    /\ orders[1].status = "pending" /\ Len(orders[1].statusHistory) = 1

\* C12: a caller whose stored role is admin, with a token of login, is
\* let through as admin by the order routes: getOrderById on another
\* user's order answers 200, getUserOrders and updateOrder do not answer
\* 403, and updateOrderStatus sets each of the six statuses on another
\* user's order.
C12_StoredAdminActsAsAdmin ==
    \A u \in UserIds :
        StoredAdmin(u) =>
            /\ \A v \in UserIds : UserOrdersResponse(orders, Claims(u), v).code # 403
            /\ \A id \in 1..Len(orders) :
                  orders[id].userId # u =>
                      /\ OrderByIdResponse(orders, Claims(u), id).code = 200
                      /\ \A updateData \in OrderUpdates :
                            RunUpdateOrder(orders, Claims(u), id, updateData).resp.code # 403
                      /\ \A status \in Statuses :
                            /\ SetStatus(u, id, status).resp.code = 200
                            /\ SetStatus(u, id, status).orders[id].status = status

\* C13: updateOrderStatus by a non-admin on their own order with a status
\* other than cancelled answers 403 whatever the order's current status,
\* pending included, and leaves the order as it was.
C13_OwnNonCancelForbidden ==
    \A u \in UserIds, id \in 1..Len(orders), status \in Statuses \ {"cancelled"} :
        (~StoredAdmin(u) /\ orders[id].userId = u) =>
            LET r == SetStatus(u, id, status) IN
            r.resp.code = 403 /\ r.orders = orders

\* C14: updateOrderStatus by a non-admin on their own order with status
\* cancelled goes through when the order is pending, and answers 403 and
\* leaves the order as it was when the order has any other status.
C14_OwnCancelOnlyWhenPending ==
    \A u \in UserIds, id \in 1..Len(orders) :
        (~StoredAdmin(u) /\ orders[id].userId = u) =>
            LET r == SetStatus(u, id, "cancelled") IN
            IF orders[id].status = "pending"
            THEN r.resp.code = 200 /\ r.orders[id].status = "cancelled"
            ELSE r.resp.code = 403 /\ r.orders = orders

\* every updateOrderStatus that goes through sets status to the requested
\* value, appends exactly one {status, notes} entry to that order's
\* history and touches no other order
C15_AppendsOneEntry ==
    \A u \in UserIds, id \in 1..Len(orders), status \in Statuses, notes \in {None, Some("by phone")} :
        LET r == RunUpdateOrderStatus(orders, Claims(u), id, [status |-> Some(status), notes |-> notes]) IN
        r.resp.code = 200 =>
            /\ Len(r.orders) = Len(orders)
            /\ r.orders[id].status = status
            /\ r.orders[id].statusHistory =
                   Append(orders[id].statusHistory,
                          [status |-> status, notes |-> IF Present(notes) THEN Val(notes) ELSE ""])
            /\ \A j \in 1..Len(orders) : j # id => r.orders[j] = orders[j]

\* a step keeps every order and keeps its history as a prefix of the new one
C15_HistoryGrows ==
    \A id \in 1..Len(orders) :
        /\ id <= Len(orders')
        /\ IsPrefix(orders[id].statusHistory, orders'[id].statusHistory)

\* C15: statusHistory is append-only: a successful updateOrderStatus
\* appends exactly one entry and sets status, and over every step of
\* createOrder, updateOrderStatus, updateOrder (and updateBook) by any
\* caller an order's history before the step is a prefix of its history
\* after it.
C15_HistoryAppendOnly == []C15_AppendsOneEntry /\ [][C15_HistoryGrows]_vars

\* C16: every persisted order has a non-empty statusHistory whose first
\* entry is {pending, "Order created"}; an order createOrder has just
\* created has status pending and that entry alone.
C16_HistoryStartsPending ==
    /\ \A id \in 1..Len(orders) :
          /\ orders[id].statusHistory # <<>>
          /\ orders[id].statusHistory[1] = [status |-> "pending", notes |-> "Order created"]
    /\ \A u \in UserIds, b \in BookIds :
          LET r == Run(u, OneCopy(b)) IN
          r.resp.code = 201 =>
              /\ r.orders[Len(r.orders)].status = "pending"
              /\ r.orders[Len(r.orders)].statusHistory =
                     <<[status |-> "pending", notes |-> "Order created"]>>
    /\ (resp.op = "createOrder" /\ resp.code = 201) =>
          /\ resp.data[1].status = "pending"
          /\ Len(resp.data[1].statusHistory) = 1

\* C17: updateOrderStatus with no status, or with a status that is not one
\* of the six, answers 400 to every caller, for every order id, and
\* leaves the orders collection as it was.
C17_UnknownStatusRejected ==
    /\ \A u \in UserIds, id \in OrderIds, status \in {None, Some("refunded"), Some("")},
             notes \in {None, Some("by phone")} :
          LET r == RunUpdateOrderStatus(orders, Claims(u), id, [status |-> status, notes |-> notes]) IN
          r.resp.code = 400 /\ r.orders = orders
    /\ \A id \in 1..Len(orders) : orders[id].status \in Statuses
    /\ \A id \in 1..Len(orders) :
          \A i \in 1..Len(orders[id].statusHistory) :
              orders[id].statusHistory[i].status \in Statuses

\* the owner of a pending order asked for an unknown status and got 400
C17_Witness ==
    /\ resp.op = "updateOrderStatus" /\ resp.code = 400 /\ resp.error = "Invalid status"
    /\ Len(orders) = 1
    /\ resp.user = orders[1].userId
    /\ orders[1].status = "pending" /\ Len(orders[1].statusHistory) = 1

\* totalAmount is the sum of the line subtotals
C18_TotalIsSum ==
    \A id \in 1..Len(orders) :
        orders[id].totalAmount = SumSeq([i \in 1..Len(orders[id].items) |-> orders[id].items[i].subtotal])

\* a step keeps every order's lines and total
C18_LinesFrozen ==
    \A id \in 1..Len(orders) :
        /\ id <= Len(orders')
        /\ orders'[id].items = orders[id].items
        /\ orders'[id].totalAmount = orders[id].totalAmount

\* C18: once an order is created no step of createOrder, updateOrderStatus,
\* updateOrder or updateBook changes its lines or its totalAmount, and
\* totalAmount is the sum of the line subtotals in every reachable state.
C18_SnapshotImmutable == []C18_TotalIsSum /\ [][C18_LinesFrozen]_vars

\* ------------------------------------------- claims on orders from carts
\* the seeded book a cart line's title names
BookOfTitle(title) == CHOOSE b \in BookIds : books[b].title = title

\* every line of the cart names a seeded book with enough stock for it
CartInStock(cart) ==
    /\ cart # <<>>
    /\ \A i \in 1..Len(cart) :
          /\ \E b \in BookIds : books[b].title = cart[i].title
          /\ Present(cart[i].quantity)
          /\ Val(cart[i].quantity) > 0
          /\ Val(cart[i].quantity) <= books[BookOfTitle(cart[i].title)].stock

\* C19: for a user whose cart was filled through cart/add and cart/update
\* with lines for existing books in stock, createOrderFromCart answers
\* 201, the order has one line per cart line with that line's book and
\* quantity, each such book's stock is lower by that quantity, and the
\* cart is empty afterwards.
C19_CartOrderSucceeds ==
    \A u \in UserIds :
        CartInStock(users[u].cart) =>
            LET cart == users[u].cart
                r == RunCreateOrderFromCart(books, users, orders, Claims(u), FromCartBody, Today)
            IN  /\ r.resp.code = 201
                /\ Len(r.orders) = Len(orders) + 1
                /\ Len(r.orders[Len(r.orders)].items) = Len(cart)
                /\ \A i \in 1..Len(cart) :
                      /\ r.orders[Len(r.orders)].items[i].bookId = BookOfTitle(cart[i].title)
                      /\ r.orders[Len(r.orders)].items[i].quantity = Val(cart[i].quantity)
                      /\ r.books[BookOfTitle(cart[i].title)].stock =
                             books[BookOfTitle(cart[i].title)].stock - Val(cart[i].quantity)
                /\ r.users[u].cart = <<>>

\* C20: createOrderFromCart by a user whose cart is empty answers 400
\* ("Cart is empty") whatever the body, and leaves the orders, the books
\* and the carts as they were.
C20_EmptyCartRejected ==
    /\ \A u \in UserIds, body \in FromCartBodies :
          users[u].cart = <<>> =>
              LET r == RunCreateOrderFromCart(books, users, orders, Claims(u), body, Today) IN
              /\ r.resp.code = 400
              /\ r.resp.error = "Cart is empty"
              /\ DbOf(r) = Db
    /\ (resp.op = "createOrderFromCart" /\ resp.error = "Cart is empty") =>
          /\ resp.code = 400
          /\ users[resp.user].cart = <<>>

\* user 2, cart empty, was refused while user 1 holds a filled cart and an
\* order has lowered a stock
C20_Witness ==
    /\ resp.op = "createOrderFromCart" /\ resp.code = 400 /\ resp.error = "Cart is empty"
    /\ resp.user = 2
    /\ users[2].cart = <<>>
    /\ users[1].cart # <<>>
    /\ Len(orders) = 1
    /\ books[1].stock = InitStock - 1

\* ------------------------------------------------------ claims on carts
\* C21: in every reachable state, the states reached by interleaved cart
\* requests of one user included, no cart holds two lines with one title.
C21_OneLinePerTitle ==
    \A u \in UserIds :
        \A i, j \in 1..Len(users[u].cart) :
            i # j => users[u].cart[i].title # users[u].cart[j].title

\* two requests to add one title both read the empty cart and both wrote:
\* the cart holds one line of quantity 1
C21_Witness ==
    /\ reqs[1].pc = "done" /\ reqs[2].pc = "done"
    /\ reqs[1].cart = reqs[2].cart
    /\ Len(reqs[1].cart) = 1
    /\ reqs[1].cart[1].quantity = Some(1)
    /\ users[Shopper].cart = reqs[1].cart

C23_UpdateTouchesOneLine ==
    \A title \in Titles \cup {"Ulysses"}, q \in {0, 1, 2} :
        LET cart == users[Shopper].cart
            r == RunUpdateItem(users, Claims(Shopper), [title |-> Some(title), quantity |-> Some(q)])
            new == r.users[Shopper].cart
            i == FindIndex(cart, title)
        IN  /\ \A u \in UserIds \ {Shopper} : r.users[u] = users[u]
            /\ IF i = 0 THEN r.resp.code = 404 /\ new = cart
               ELSE IF q = 0
               THEN /\ r.resp.code = 200
                    /\ Len(new) = Len(cart) - 1
                    /\ \A j \in 1..Len(new) : new[j] = IF j < i THEN cart[j] ELSE cart[j + 1]
               ELSE /\ r.resp.code = 200
                    /\ new = [cart EXCEPT ![i].quantity = Some(q)]

\* the first of two lines was set to quantity 2, the second kept quantity 1
C23_Witness ==
    /\ resp.op = "updateItem" /\ resp.code = 200
    /\ Len(users[Shopper].cart) = 2
    /\ users[Shopper].cart[1].quantity = Some(2)
    /\ users[Shopper].cart[2].quantity = Some(1)

\* C24: every line of every cart has a quantity, and it is >= 1.
C24_QuantityAtLeastOne ==
    \A u \in UserIds :
        \A i \in 1..Len(users[u].cart) :
            /\ Present(users[u].cart[i].quantity)
            /\ Val(users[u].cart[i].quantity) >= 1

\* --------------------------------------------- claims on access control
\* what authenticateToken answers for each kind of token
C25_AuthAnswers ==
    \A token \in AllTokens :
        LET auth == AuthenticateToken(token) IN
        /\ token.kind = "none" => auth.code = 401
        /\ token.kind = "invalid" => auth.code = 403
        /\ token.kind = "valid" =>
              /\ auth.code = 0
              /\ auth.user.userId = token.userId
              /\ auth.user.email = token.email

\* a step answered by authenticateToken itself writes nothing
C25_RejectedWritesNothing ==
    resp'.error \in {"Access token required", "Invalid or expired token"} =>
        /\ resp'.code = IF resp'.error = "Access token required" THEN 401 ELSE 403
        /\ UNCHANGED <<books, users, orders, categories>>

\* C25: authenticateToken answers 401 to a request without a token and 403
\* to one whose token does not verify, never the other way round, and the
\* handler behind it does not run (nothing is written); for a token that
\* verifies the handler runs with the userId and email of the token.
C25_AuthenticateRejects == []C25_AuthAnswers /\ [][C25_RejectedWritesNothing]_vars

\* a cart/clear with a token that does not verify was answered 403 and the
\* cart is still filled
C25_Witness ==
    /\ resp.op = "cartClear" /\ resp.code = 403 /\ resp.error = "Invalid or expired token"
    /\ users[Shopper].cart # <<>>

\* C26: optionalAuth sends no response for any token and calls next()
\* exactly once: with req.user = null for an absent or unverifiable token,
\* with the token's claims for one that verifies.
C26_OptionalAuthNeverRejects ==
    /\ \A token \in AllTokens :
          LET r == OptionalAuth(token) IN
          /\ r.code = 0
          /\ r.next = 1
          /\ token.kind # "valid" => r.user = None
          /\ token.kind = "valid" => r.user = Some(TokenClaims(token))
    /\ resp.op = "optionalAuth" => (resp.code = 0 /\ resp.data[1].next = 1)

\* a request without a usable token went through optionalAuth as anonymous
\* while the shopper's cart was filled
C26_Witness ==
    /\ resp.op = "optionalAuth" /\ resp.user = 0
    /\ resp.data[1].user = None /\ resp.data[1].next = 1
    /\ users[Shopper].cart # <<>>

\* C27: the admin gate of the routes lets a request through exactly when
\* the role stored for the token's user is admin, whatever the token
\* carries.
C27_GateUsesStoredRole ==
    \A u \in UserIds, role \in TokenRoles :
        LET user == TokenClaims(RoleToken(u, role)) IN
        /\ RequireAdmin(user).code = (IF StoredAdmin(u) THEN 0 ELSE 403)
        /\ UserOrdersResponse(orders, user, Shopper).code = (IF StoredAdmin(u) THEN 200 ELSE 403)

\* -------------------------------------------------- claims on categories
\* the claims of an administrator's token
AdminClaims == TokenClaims(RoleToken(1, "admin"))

\* the books whose category field refers to category id, as an ObjectId or
\* as its hex string
BooksOf(bks, id) == {b \in DOMAIN bks : Present(bks[b].category) /\ Val(bks[b].category).id = id}

\* C28: deleteCategory without force=true on a category that N > 0 books
\* refer to answers 409 reporting N and leaves the categories and the books
\* as they were.
C28_DeleteWithBooksRefused ==
    \A id \in CategoryIds(categories) :
        LET N == Cardinality(BooksOf(books, id))
            r == RunDeleteCategory(categories, books, AdminClaims, id, None)
        IN  N > 0 =>
              /\ r.resp.code = 409
              /\ r.resp.data = <<N>>
              /\ r.categories = categories
              /\ r.books = books

\* C29: a deleteCategory with force=true that answers 200 removes the
\* category, deletes no book, leaves no book's category referring to the
\* deleted category (the field is absent on each book that referred to it)
\* and leaves every other book as it was.
C29_ForceDeleteDetaches ==
    \A id \in CategoryIdsAny :
        LET r == RunDeleteCategory(categories, books, AdminClaims, id, Some("true")) IN
        r.resp.code = 200 =>
            /\ id \notin CategoryIds(r.categories)
            /\ DOMAIN r.books = DOMAIN books
            /\ BooksOf(r.books, id) = {}
            /\ \A b \in DOMAIN books :
                  r.books[b] = IF b \in BooksOf(books, id)
                               THEN [books[b] EXCEPT !.category = None] ELSE books[b]

\* two names equal when letter case is ignored
SameIgnoringCase(a, b) ==
    Len(a) = Len(b) /\ \A i \in 1..Len(a) : Lower(a[i]) = Lower(b[i])

\* C30: no two categories have names equal when letter case is ignored,
\* and a createCategory or an updateCategory whose name another category
\* carries, case aside, answers 409 and changes nothing.
C30_NamesUniqueIgnoringCase ==
    /\ \A c1 \in CategoryIds(categories), c2 \in CategoryIds(categories) :
          c1 # c2 => ~SameIgnoringCase(Val(categories[c1]).name, Val(categories[c2]).name)
    /\ \A name \in CategoryNames :
          /\ (\E c \in CategoryIds(categories) : SameIgnoringCase(name, Val(categories[c]).name)) =>
                LET r == RunCreateCategory(categories, AdminClaims, [name |-> Some(name)]) IN
                r.resp.code = 409 /\ r.categories = categories
          /\ \A id \in CategoryIds(categories) :
                (\E c \in CategoryIds(categories) \ {id} :
                    SameIgnoringCase(name, Val(categories[c]).name)) =>
                LET r == RunUpdateCategory(categories, AdminClaims, id, [name |-> Some(name)]) IN
                r.resp.code = 409 /\ r.categories = categories

\* ---------------------------------------------------- claims on accounts
\* C31: no two users have stored emails that are equal when letter case
\* is ignored, and a register whose email equals a stored one up to letter
\* case answers 409 and creates no user.
C31_EmailsUnique ==
    /\ \A u1 \in DOMAIN users, u2 \in DOMAIN users :
          u1 # u2 => ToLowerCase(users[u1].email) # ToLowerCase(users[u2].email)
    /\ \A email \in RegisterEmails :
          (\E u \in DOMAIN users : ToLowerCase(users[u].email) = ToLowerCase(email)) =>
              LET r == RunRegister(users, RegisterBody(Some(email), 8)) IN
              r.resp.code = 409 /\ r.users = users

\* ------------------------------------------------- claims on the catalog
\* C32: every book has a price above 0, and createBook and updateBook
\* answer 400 to every request whose price is 0 or less and leave the
\* catalog as it was.
C32_PricePositive ==
    /\ \A b \in DOMAIN books : books[b].price > 0
    /\ \A price \in {0, -1} :
          /\ LET r == RunCreateBook(books, AdminClaims, BookBody(Some(price))) IN
             r.resp.code = 400 /\ r.books = books
          /\ \A id \in DOMAIN books :
                LET r == RunUpdateBook(books, AdminClaims, id, PriceUpdate(Some(price))) IN
                r.resp.code = 400 /\ r.books = books

\* C33: a step changes the stock of an existing book only if it is a
\* createOrder answered 201, and then only downwards; updateBook, the cart
\* routes, updateOrderStatus, updateOrder and the category routes leave
\* every existing book's stock as it was.
C33_StockStep ==
    \A b \in DOMAIN books :
        books'[b].stock # books[b].stock =>
            /\ resp'.op \in {"createOrder", "createOrderFromCart"}
            /\ resp'.code = 201
            /\ books'[b].stock < books[b].stock

C33_StockOnlyByOrders == [][C33_StockStep]_vars

\* ------------------------------------------- claims on failing requests
\* the quantity the first n lines take from book b
RECURSIVE TakenBy(_, _, _)
TakenBy(lines, n, b) ==
    IF n = 0 THEN 0
    ELSE TakenBy(lines, n - 1, b) + (IF lines[n].bookId = b THEN lines[n].quantity ELSE 0)

\* a createOrder has failed after its order was inserted
FailedAfterInsert == reqs[1].pc = "done" /\ resp.op = "createOrder" /\ resp.code = 500 /\ reqs[1].orderId # 0

\* then the order is persisted, the lines before the failing call are
\* decremented and the others are not
C34_PartialState ==
    FailedAfterInsert =>
        /\ reqs[1].orderId \in 1..Len(orders)
        /\ orders[reqs[1].orderId].items = reqs[1].validatedItems
        /\ \A b \in BookIds :
              books[b].stock = InitStock - TakenBy(reqs[1].validatedItems, reqs[1].k - 1, b)

\* the failing step itself writes nothing, and the cart is emptied by no
\* step but one answered 201
C34_FailingStep ==
    /\ (resp'.op = "createOrder" /\ resp'.code = 500) =>
          (books' = books /\ users' = users /\ orders' = orders)
    /\ (users[Shopper].cart # <<>> /\ users'[Shopper].cart = <<>>) => resp'.code = 201

\* C34: when a database call of createOrder throws after the order was
\* inserted, the caller is answered 500, the order stays persisted, the
\* decrements already made stay, the remaining lines are not decremented
\* and the cart is not cleared.
C34_NothingRolledBack == []C34_PartialState /\ [][C34_FailingStep]_vars

\* the second decrement of a two-line order threw: one line is taken from
\* the stock, the order is there and the cart is still filled
C34_Witness ==
    /\ FailedAfterInsert
    /\ Len(reqs[1].validatedItems) = 2 /\ reqs[1].k = 2
    /\ Len(orders) = 1
    /\ users[Shopper].cart # <<>>

\* ------------------------------------------ claims on an order's fields
\* C35: every persisted order has a status that is one of the six and
\* that is the status of the last entry of its statusHistory.
C35_StatusIsLastEntry ==
    \A id \in 1..Len(orders) :
        /\ orders[id].status \in Statuses
        /\ orders[id].statusHistory # <<>>
        /\ orders[id].status = orders[id].statusHistory[Len(orders[id].statusHistory)].status

\* a step in which the shopper's request turns an order cancelled finds
\* the order pending
C36_CancelStep ==
    \A id \in 1..Len(orders) :
        (/\ resp'.op = "updateOrderStatus" /\ resp'.user = Shopper /\ resp'.code = 200
         /\ Len(orders'[id].statusHistory) > Len(orders[id].statusHistory)
         /\ orders'[id].status = "cancelled")
            => orders[id].status = "pending"

\* C36: a cancellation requested by a non-admin is written only to an
\* order that is pending at the moment of the write, also when another
\* updateOrderStatus on the same order runs between its read and its write.
C36_CancelOnlyPending == [][C36_CancelStep]_vars

\* no step changes the userId or the orderNumber of an order
C37_IdentityStep ==
    \A id \in 1..Len(orders) :
        /\ orders'[id].userId = orders[id].userId
        /\ orders'[id].orderNumber = orders[id].orderNumber

\* an order created carries the userId of the token that created it
C37_OwnerIsCreator ==
    /\ \A id \in 1..Len(orders) : orders[id].userId = Shopper
    /\ (resp.op = "createOrder" /\ resp.code = 201) => resp.data[1].userId = resp.user

\* C37: an order's userId is the userId of the identity that created it,
\* and neither its userId nor its orderNumber changes afterwards, under
\* updateOrderStatus and under updateOrder whatever the body carries.
C37_OwnerAndNumberFixed == []C37_OwnerIsCreator /\ [][C37_IdentityStep]_vars

\* an updateOrder whose body carried a userId and an orderNumber was
\* answered 200 on the only order, which is as it was created
C37_Witness ==
    /\ resp.op = "updateOrder" /\ resp.code = 200
    /\ Len(orders) = 1
    /\ orders[1].status = "pending" /\ Len(orders[1].statusHistory) = 1
    /\ orders[1].items # <<>>

\* ------------------------------------------- claims on concurrent carts
\* the step that completes an addItem leaves the cart one copy larger than
\* it found it
C38_AddStep ==
    (\E c \in Conns : reqs[c].pc = "addItem" /\ reqs'[c].pc = "done") =>
        CartQuantity(users'[Shopper].cart) = CartQuantity(users[Shopper].cart) + 1

\* C38: when addItem requests of one user overlap and each is answered
\* 200, the stored cart reflects each of them: every one of them leaves the
\* sum of the quantities one larger, two of them two larger.
C38_NoLostAdd == [][C38_AddStep]_vars

\* ------------------------------------------------ claims on statistics
\* the orders of user u, in insertion order
OrdersOwnedBy(u) == SelectSeq(orders, LAMBDA o : o.userId = u)

\* what a non-admin is to be told about the orders own
OwnStats(own) ==
    [totalOrders |-> Len(own),
     totalRevenue |-> SumSeq([i \in 1..Len(own) |-> own[i].totalAmount]),
     pendingOrders |-> Len(SelectSeq(own, LAMBDA o : o.status = "pending")),
     cancelledOrders |-> Len(SelectSeq(own, LAMBDA o : o.status = "cancelled"))]

\* C39: for a caller who is not an admin and for every userId query
\* parameter, getOrderStats answers with the count, the sum of totalAmount,
\* the number of pending and the number of cancelled orders among the
\* caller's own orders, and answers the same when the orders of every
\* other user are taken away.
C39_StatsOwnScope ==
    /\ \A u \in UserIds, role \in {Undefined, "user"}, query \in StatsQueries :
          LET user == TokenClaims(RoleToken(u, role))
              data == OrderStatsResponse(orders, user, query).data[1]
          IN  /\ [f \in DOMAIN OwnStats(<<>>) |-> data[f]] = OwnStats(OrdersOwnedBy(u))
              /\ OrderStatsResponse(OrdersOwnedBy(u), user, query).data[1] = data
    /\ (resp.op = "getOrderStats" /\ resp.user = Shopper) =>
          resp.data[1].totalOrders = Len(OrdersOwnedBy(Shopper))

\* the shopper asked for the admin's statistics while both had an order,
\* the shopper's cancelled, and was told of the one order own
C39_Witness ==
    /\ resp.op = "getOrderStats" /\ resp.user = Shopper /\ resp.code = 200
    /\ Len(orders) = 2 /\ Len(OrdersOwnedBy(1)) = 1
    /\ resp.data[1].totalOrders = 1
    /\ resp.data[1].cancelledOrders = 1
    /\ resp.data[1].totalRevenue = OrdersOwnedBy(Shopper)[1].totalAmount

\* C40: in every state reached by createOrder and updateOrderStatus,
\* getOrderStats reports completedOrders = 0 to every caller and for every
\* query, whatever number of orders is delivered.
C40_CompletedAlwaysZero ==
    /\ \A token \in StatsTokens, query \in StatsQueries :
          token.kind = "valid" =>
              OrderStatsResponse(orders, TokenClaims(token), query).data[1].completedOrders = 0
    /\ \A id \in 1..Len(orders) : orders[id].status # "completed"
    /\ (resp.op = "getOrderStats" /\ resp.code = 200) => resp.data[1].completedOrders = 0

\* both orders are delivered and the statistics asked for last cover
\* both
C40_Witness ==
    /\ Len(orders) = 2
    /\ \A id \in 1..2 : orders[id].status = "delivered"
    /\ resp.op = "getOrderStats" /\ resp.code = 200
    /\ resp.data[1].totalOrders = 2
    /\ resp.data[1].completedOrders = 0

====
